---- MODULE Spec2Model ----
(***************************************************************************)
(* RotorSimulation (src/vital/module_rotor_simulation.py): the time march  *)
(* of a tidal-turbine rotor, its constructor, the flow-attenuation model   *)
(* and the constant-speed solver.                                          *)
(*                                                                         *)
(* Numbers.  The program computes in IEEE-754 binary floating point        *)
(* (Python float / numpy.float64).  The model computes in the same kind of *)
(* arithmetic with a mantissa of MantBits bits instead of 53: every        *)
(* operation is the exact result rounded to nearest, ties to even; NaN and *)
(* the infinities propagate as in IEEE-754; the exponent is unbounded (no  *)
(* overflow, no underflow).  A number is a record [k, m, e]:               *)
(*   k = "f"   the finite value m * 2^e, with m = 0 and e = 0 for zero and *)
(*             2^(MantBits-1) <= |m| < 2^MantBits otherwise;               *)
(*   k = "nan" not-a-number;    k = "inf"  an infinity of sign m.          *)
(***************************************************************************)
EXTENDS Integers, Sequences, FiniteSets, TLC

\* Bits of mantissa of the model's floating-point format.
MantBits == 4

----------------------------------------------------------------------------
\* Floating-point arithmetic

Pow2(n) == 2 ^ n

\* The element of a one-element set.  Only({e : x \in {v}}) is e with x bound to
\* the value of v, evaluated once.
Only(S) == CHOOSE r \in S : TRUE

Abs(i) == IF i < 0 THEN -i ELSE i

Sgn(i) == IF i < 0 THEN -1 ELSE IF i > 0 THEN 1 ELSE 0

\* Number of bits of the natural number a (0 for 0).
BitLen(a) == CHOOSE L \in 0..31 : (L = 0 /\ a = 0) \/ (L > 0 /\ Pow2(L - 1) <= a /\ a < Pow2(L))

FNaN == [k |-> "nan", m |-> 0, e |-> 0]

FInf(s) == [k |-> "inf", m |-> s, e |-> 0]

FZero == [k |-> "f", m |-> 0, e |-> 0]

IsNaN(x) == x.k = "nan"

IsInf(x) == x.k = "inf"

IsFin(x) == x.k = "f"

\* The natural number a shifted right by s > 0 bits, rounded to nearest, ties to even.
RoundShift(a, s) ==
  Only({ IF r > Pow2(s - 1) \/ (r = Pow2(s - 1) /\ q % 2 = 1) THEN q + 1 ELSE q
         : q \in {a \div Pow2(s)}, r \in {a % Pow2(s)} })

\* The integer mm * 2^ee rounded to MantBits bits, to nearest, ties to even.
Norm(mm, ee) ==
  IF mm = 0 THEN FZero
  ELSE Only({
         IF L <= MantBits
         THEN [k |-> "f", m |-> mm * Pow2(MantBits - L), e |-> ee - (MantBits - L)]
         ELSE Only({
                IF q1 = Pow2(MantBits)
                THEN [k |-> "f", m |-> Sgn(mm) * Pow2(MantBits - 1), e |-> ee + (L - MantBits) + 1]
                ELSE [k |-> "f", m |-> Sgn(mm) * q1, e |-> ee + (L - MantBits)]
                : q1 \in {RoundShift(Abs(mm), L - MantBits)} })
         : L \in {BitLen(Abs(mm))} })

\* Twice the quotient of the naturals n and d > 0, plus 1 when the division is
\* not exact (a sticky bit for the rounding).
StickyDiv(n, d) == 2 * (n \div d) + (IF n % d = 0 THEN 0 ELSE 1)

\* The literal n/d (n >= 0, d > 0, both below 2^20) as a number of the format.
Lit(n, d) ==
  IF n = 0 THEN FZero
  ELSE Only({ Norm(StickyDiv(n * Pow2(IF sh >= 0 THEN sh ELSE 0),
                             d * Pow2(IF sh >= 0 THEN 0 ELSE -sh)), -sh - 1)
              : sh \in {MantBits + 3 + BitLen(d) - BitLen(n)} })

FNeg(x) == IF IsFin(x) \/ IsInf(x) THEN [x EXCEPT !.m = -x.m] ELSE x

\* x * y
FMul(x, y) ==
  IF IsNaN(x) \/ IsNaN(y) THEN FNaN
  ELSE IF IsInf(x) \/ IsInf(y)
       THEN IF x.m = 0 \/ y.m = 0 THEN FNaN ELSE FInf(Sgn(x.m) * Sgn(y.m))
       ELSE Norm(x.m * y.m, x.e + y.e)

\* x / y as numpy.float64 divides: x/0 is an infinity, 0/0 is NaN.
FDiv(x, y) ==
  IF IsNaN(x) \/ IsNaN(y) THEN FNaN
  ELSE IF IsInf(x) THEN (IF IsInf(y) THEN FNaN ELSE FInf(x.m * (IF y.m < 0 THEN -1 ELSE 1)))
  ELSE IF IsInf(y) THEN FZero
  ELSE IF y.m = 0 THEN (IF x.m = 0 THEN FNaN ELSE FInf(Sgn(x.m)))
  ELSE IF x.m = 0 THEN FZero
  ELSE Norm(Sgn(x.m) * Sgn(y.m) * StickyDiv(Abs(x.m) * Pow2(MantBits + 2), Abs(y.m)),
            x.e - y.e - (MantBits + 2) - 1)

\* x + y
FAdd(x, y) ==
  IF IsNaN(x) \/ IsNaN(y) THEN FNaN
  ELSE IF IsInf(x) THEN (IF IsInf(y) /\ y.m # x.m THEN FNaN ELSE x)
  ELSE IF IsInf(y) THEN y
  ELSE IF x.m = 0 THEN y
  ELSE IF y.m = 0 THEN x
  ELSE Only({ IF hi.e - lo.e > 2 * MantBits + 2
              THEN Norm(hi.m * Pow2(2 * MantBits + 2) + Sgn(lo.m), hi.e - (2 * MantBits + 2))
              ELSE Norm(hi.m * Pow2(hi.e - lo.e) + lo.m, lo.e)
              : hi \in {IF x.e >= y.e THEN x ELSE y}, lo \in {IF x.e >= y.e THEN y ELSE x} })

FSub(x, y) == FAdd(x, FNeg(y))

\* The sign of a number that is not NaN: -1, 0 or 1.
FSign(x) == Sgn(x.m)

\* x < y, x <= y, x > y, x == y, x != y as IEEE-754 compares (false with a NaN, but for !=).
FLt(x, y) == ~IsNaN(x) /\ ~IsNaN(y) /\ x # y /\ FSign(FSub(x, y)) < 0

FLe(x, y) == ~IsNaN(x) /\ ~IsNaN(y) /\ (x = y \/ FSign(FSub(x, y)) < 0)

FGt(x, y) == FLt(y, x)

FGe(x, y) == FLe(y, x)

FEq(x, y) == ~IsNaN(x) /\ ~IsNaN(y) /\ x = y

FNe(x, y) == ~FEq(x, y)

\* Python's builtin min(a, b): b when b < a, else a (so a NaN first argument is returned).
PyMin(a, b) == IF FLt(b, a) THEN b ELSE a

\* The integer square root of the natural number M < 2^(2 MantBits + 4).
ISqrt(M) == CHOOSE i \in 0..Pow2(MantBits + 2) : i * i <= M /\ M < (i + 1) * (i + 1)

\* The square root of x (NaN below 0).
FSqrt(x) ==
  IF IsNaN(x) THEN FNaN
  ELSE IF x.m < 0 THEN FNaN
  ELSE IF IsInf(x) \/ x.m = 0 THEN x
  ELSE Only({ Only({ Norm(2 * r + (IF r * r = x.m * Pow2(s) THEN 0 ELSE 1),
                          ((x.e - s) \div 2) - 1)
                     : r \in {ISqrt(x.m * Pow2(s))} })
              : s \in {IF (x.e - (MantBits + 2)) % 2 = 0 THEN MantBits + 2 ELSE MantBits + 3} })

\* x to the natural power c, by squaring and multiplying.
RECURSIVE IPow(_, _)
IPow(x, c) ==
  IF c = 0 THEN Norm(1, 0)
  ELSE IF c = 1 THEN x
  ELSE Only({ IF c % 2 = 0 THEN FMul(h, h) ELSE FMul(FMul(h, h), x)
              : h \in {IPow(x, c \div 2)} })

\* x ** 2 and x ** 3 with a Python int exponent.
Sq(x) == IPow(x, 2)

Cube(x) == IPow(x, 3)

\* The square root taken j times.
RECURSIVE RootPow2(_, _)
RootPow2(x, j) == IF j = 0 THEN x ELSE RootPow2(FSqrt(x), j - 1)

\* The odd part c and the binary exponent j of the finite non-zero y: y = c * 2^j.
RECURSIVE OddPart(_, _)
OddPart(mm, ee) == IF mm % 2 = 0 THEN OddPart(mm \div 2, ee + 1) ELSE <<mm, ee>>

\* x ** y for a float exponent y > 0 (numpy scalar power): NaN for a negative
\* base with a non-integer exponent.  The exponent is a number of the format,
\* c * 2^-j, and the power is the 2^j-th root of x^c.
FPow(x, y) ==
  IF IsNaN(x) \/ IsNaN(y) THEN FNaN
  ELSE Only({ IF IsInf(x) THEN (IF x.m < 0 /\ oe[2] < 0 THEN FNaN ELSE x)
              ELSE IF x.m < 0 /\ oe[2] < 0 THEN FNaN
              ELSE IF x.m = 0 THEN FZero
              ELSE IF oe[2] >= 0 THEN IPow(x, oe[1] * Pow2(oe[2]))
              ELSE RootPow2(IPow(x, oe[1]), -oe[2])
              : oe \in {OddPart(y.m, y.e)} })

F1 == Lit(1, 1)

F2 == Lit(2, 1)

\* numpy.pi
Pi == Lit(355, 113)

\* arctan of a finite a >= 0: a / (1 + 0.28125 a^2) up to 1, and
\* pi/2 - a / (a^2 + 0.28125) above.
arctanPos(a) ==
  IF FLe(a, F1)
  THEN FDiv(a, FAdd(F1, FMul(Lit(28125, 100000), Sq(a))))
  ELSE FSub(FDiv(Pi, F2), FDiv(a, FAdd(Sq(a), Lit(28125, 100000))))

\* numpy.arctan
arctan(x) ==
  IF IsNaN(x) THEN FNaN
  ELSE IF IsInf(x) THEN (IF x.m < 0 THEN FNeg(FDiv(Pi, F2)) ELSE FDiv(Pi, F2))
  ELSE IF x.m < 0 THEN FNeg(arctanPos(FNeg(x))) ELSE arctanPos(x)

\* 1 - a2/2 + a2^2/24, the cosine series in a2 = a^2
cosTerms(a2) == FAdd(FSub(F1, FDiv(a2, F2)), FDiv(Sq(a2), Lit(24, 1)))

\* 1 - u2/6 + u2^2/120, the sine series over u, in u2 = u^2
sinTerms(u2) == FAdd(FSub(F1, FDiv(u2, Lit(6, 1))), FDiv(Sq(u2), Lit(120, 1)))

\* u - u^3/6 + u^5/120
sinSeries(u) == FMul(u, sinTerms(Sq(u)))

\* cos of a finite a >= 0 below pi
cosPos(a) ==
  IF FLe(a, FDiv(Pi, Lit(4, 1))) THEN cosTerms(Sq(a))
  ELSE sinSeries(FSub(FDiv(Pi, F2), a))

\* numpy.cos, on the range of arctan: the cosine series up to pi/4, and the
\* sine series of pi/2 - |x| above it.
cos(x) ==
  IF IsNaN(x) \/ IsInf(x) THEN FNaN
  ELSE IF x.m < 0 THEN cosPos(FNeg(x)) ELSE cosPos(x)

----------------------------------------------------------------------------
\* Exceptions: the type raised and the line of module_rotor_simulation.py that
\* raised it.

Exc(type, line) == [type |-> type, line |-> line]

NoExc == Exc("none", 0)

----------------------------------------------------------------------------
\* numpy arrays: functions on 0..n-1

\* The array f as a table of its entries.
Arr(f) == f @@ << >>

\* Python len() of an array
len(a) == Cardinality(DOMAIN a)

\* numpy.zeros(n)
Zeros(n) == Arr([i \in 0..(n - 1) |-> FZero])

\* A value that is either a 0-d scalar or a 1-d array (what flowAtDepth takes and returns).
NdScalar(x) == [ndim |-> 0, d |-> Arr([i \in {0} |-> x])]

NdArray(a) == [ndim |-> 1, d |-> a]

----------------------------------------------------------------------------
\* Constants

\* ConstantsGlobal.rho
rho == Lit(1025, 1)

\* ConstantsGlobal.g
g == Lit(98, 10)

\* self.Jr
Jr == Lit(1000000, 1)

\* unit_weight.RotorWeight
RotorWeight(Radius) ==
  FSub(FAdd(FMul(Lit(112, 10), Sq(Radius)), FMul(Lit(16377, 1000), Radius)), Lit(744, 100))

\* unit_weight.PTOWeight
PTOWeight(Prated) == FAdd(FMul(Lit(15017, 1000000), Prated), Lit(15167, 10000))

\* unit_weight.UnitWeight
UnitWeight(Radius, Prated) == FAdd(RotorWeight(Radius), PTOWeight(Prated))

----------------------------------------------------------------------------
\* RotorSimulation.flowAtDepth

\* The case split with the bounds of the power-law part of the straddling case
\* taken from the half-depth down to the lower edge of the band.
flowBounds_inverted(Radius, dz, dMoor) ==
  Only({ IF FLt(lo, half) /\ FLe(hi, half)
         THEN [case |-> 1, Za |-> lo, Zb |-> hi, Zc |-> FZero, Zd |-> FZero]
         ELSE IF FGe(lo, half) /\ FGt(hi, half)
         THEN [case |-> 2, Za |-> FZero, Zb |-> FZero, Zc |-> lo, Zd |-> hi]
         ELSE [case |-> 3, Za |-> half, Zb |-> lo, Zc |-> half, Zd |-> hi]
         : half \in {FMul(Lit(5, 10), dMoor)},
           lo \in {FSub(dz, Radius)},
           hi \in {FAdd(dz, Radius)} })

\* The three-way case split on the rotor band dz - Radius .. dz + Radius and the
\* integration bounds it chooses (dz is dz[i]).
flowBounds(Radius, dz, dMoor) ==
  Only({ IF FLt(lo, half) /\ FLe(hi, half)
         THEN [case |-> 1, Za |-> lo, Zb |-> hi, Zc |-> FZero, Zd |-> FZero]
         ELSE IF FGe(lo, half) /\ FGt(hi, half)
         THEN [case |-> 2, Za |-> FZero, Zb |-> FZero, Zc |-> lo, Zd |-> hi]
         ELSE [case |-> 3, Za |-> lo, Zb |-> half, Zc |-> half, Zd |-> hi]
         : half \in {FMul(Lit(5, 10), dMoor)},
           lo \in {FSub(dz, Radius)},
           hi \in {FAdd(dz, Radius)} })

\* Line 223
tempvalA(dMoor, Uavg, Za, Zb) ==
  FMul(FMul(FMul(Lit(11407, 10000), FPow(FDiv(F1, dMoor), FDiv(Lit(3, 1), Lit(7, 1)))),
            FPow(Uavg, Lit(3, 1))),
       FSub(FPow(Zb, FDiv(Lit(10, 1), Lit(7, 1))), FPow(Za, FDiv(Lit(10, 1), Lit(7, 1)))))

\* Line 224
tempvalB(Uavg, Zc, Zd) == FMul(FPow(FMul(Lit(107, 100), Uavg), Lit(3, 1)), FSub(Zd, Zc))

\* Line 225
PfluidAvg(Radius, Area, tA, tB) ==
  FMul(FMul(FMul(FDiv(F1, FMul(Lit(4, 1), Radius)), rho), Area), FAdd(tA, tB))

\* One pass of the loop body: Uout[i] from FlowSpeed[i] and dHub[i].
flowAtDepthElem(FlowSpeed_i, Radius, dHub_i, dMoor) ==
  Only({ FPow(FDiv(FMul(F2, PfluidAvg(Radius, Area, tempvalA(dMoor, Uavg, b.Za, b.Zb),
                                      tempvalB(Uavg, b.Zc, b.Zd))),
                   FMul(rho, Area)),
              FDiv(F1, Lit(3, 1)))
         : Area \in {FMul(Pi, FPow(Radius, F2))},
           Uavg \in {FDiv(FlowSpeed_i, Lit(107, 100))},
           b \in {flowBounds(Radius, FSub(dMoor, dHub_i), dMoor)} })

\* flowAtDepth(FlowSpeed, Radius, dHub, dMoor) on a scalar or an array.  The
\* result is [exc, val]: exc names the exception raised ("none" when it returns),
\* val is the returned value: the array Uout when it has more than one entry,
\* else the scalar Uout[0].
flowAtDepth(FlowSpeed, Radius, dHub, dMoor) ==
  IF \E i \in DOMAIN FlowSpeed.d : i \notin DOMAIN dHub.d
  THEN [exc |-> Exc("IndexError", 210), val |-> NdScalar(FZero)]
  ELSE Only({ [exc |-> NoExc,
               val |-> IF len(Uout) > 1 THEN NdArray(Uout) ELSE NdScalar(Uout[0])]
              : Uout \in {Arr([i \in DOMAIN FlowSpeed.d |->
                            flowAtDepthElem(FlowSpeed.d[i], Radius, dHub.d[i], dMoor)])} })

----------------------------------------------------------------------------
\* numpy reductions

\* numpy.sum of a[0..n-1], left to right
RECURSIVE SumTo(_, _)
SumTo(a, n) == IF n = 0 THEN FZero ELSE FAdd(SumTo(a, n - 1), a[n - 1])

\* numpy.min / numpy.max of a[0..n-1], n >= 1
RECURSIVE MinTo(_, _)
MinTo(a, n) ==
  IF n = 1 THEN a[0]
  ELSE Only({ IF IsNaN(r) \/ IsNaN(a[n - 1]) THEN FNaN
              ELSE IF FLt(a[n - 1], r) THEN a[n - 1] ELSE r
              : r \in {MinTo(a, n - 1)} })

RECURSIVE MaxTo(_, _)
MaxTo(a, n) ==
  IF n = 1 THEN a[0]
  ELSE Only({ IF IsNaN(r) \/ IsNaN(a[n - 1]) THEN FNaN
              ELSE IF FGt(a[n - 1], r) THEN a[n - 1] ELSE r
              : r \in {MaxTo(a, n - 1)} })

\* numpy.diff
diff(a) == Arr([i \in 0..(len(a) - 2) |-> FSub(a[i + 1], a[i])])

\* numpy.mean: NaN for an empty array
mean(a) == IF len(a) = 0 THEN FNaN ELSE FDiv(SumTo(a, len(a)), Norm(len(a), 0))

\* The length of the product of arrays of la and lb entries that broadcast.
broadcastLen(la, lb) == IF la = lb THEN la ELSE IF la = 1 THEN lb ELSE la

\* numpy.sum(d * ys / 2.0) over the n entries of the broadcast product
sumProductHalf(d, ys, n) ==
  SumTo(Arr([i \in 0..(n - 1) |->
               FDiv(FMul(IF len(d) = 1 THEN d[0] ELSE d[i],
                         IF len(ys) = 1 THEN ys[0] ELSE ys[i]), F2)]), n)

\* numpy.trapezoid(y, x) = sum(diff(x) * (y[1:] + y[:-1]) / 2.0); the product
\* broadcasts (equal lengths, or one of them of length 1), else ValueError.
trapezoid(y, x) ==
  Only({ IF len(d) # len(ys) /\ len(d) # 1 /\ len(ys) # 1
         THEN [exc |-> Exc("ValueError", 235), val |-> FNaN]
         ELSE [exc |-> NoExc, val |-> sumProductHalf(d, ys, broadcastLen(len(d), len(ys)))]
         : d \in {diff(x)},
           ys \in {Arr([i \in 0..(len(y) - 2) |-> FAdd(y[i + 1], y[i])])} })

----------------------------------------------------------------------------
\* The performance-curve oracle the config hands in (config['CpFunc'],
\* config['CqFunc'], config['CtFunc']): a parabola Cp with its maximum CpOpt at
\* TSROpt and zero from 2 * TSROpt on, Cq = Cp / TSR, and a linear Ct.  c is the
\* object holding CpOpt and TSROpt.  The curve named "deadband" is the parabola
\* with a band of no power, 1 <= TSR <= 2, inside its domain.

CpFunc(c, TSR) ==
  IF IsNaN(TSR) THEN FNaN
  ELSE IF FLt(TSR, FZero) \/ FGt(TSR, FMul(F2, c.TSROpt)) THEN FZero
  ELSE IF c.CpFunc = "deadband" /\ FLe(F1, TSR) /\ FLe(TSR, F2) THEN FZero
  ELSE FMul(FMul(FDiv(c.CpOpt, Sq(c.TSROpt)), TSR), FSub(FMul(F2, c.TSROpt), TSR))

CqFunc(c, TSR) ==
  IF IsNaN(TSR) THEN FNaN
  ELSE IF FLt(TSR, FZero) \/ FGt(TSR, FMul(F2, c.TSROpt)) THEN FZero
  ELSE FMul(FDiv(c.CpOpt, Sq(c.TSROpt)), FSub(FMul(F2, c.TSROpt), TSR))

CtFunc(c, TSR) ==
  IF IsNaN(TSR) THEN FNaN
  ELSE IF FLt(TSR, FZero) THEN FZero
  ELSE FMul(Lit(125, 1000), TSR)

----------------------------------------------------------------------------
\* RotorSimulation: the formulas

\* 0.5 * self.GLOBAL.rho * (np.pi * Radius**2), the common left factor
halfRhoArea(Radius) == FMul(FMul(Lit(5, 10), rho), FMul(Pi, Sq(Radius)))

calculate_Kopt(self) ==
  FDiv(FMul(FMul(halfRhoArea(self.Radius), Cube(self.Radius)), self.CpOpt), Cube(self.TSROpt))

\* The hydrodynamic torque written as 0.5 rho A R Uinf**3 Cq / Uinf.
calculate_hydro_torque_perSpeed(Radius, Uinf, Cq) ==
  FDiv(FMul(FMul(FMul(halfRhoArea(Radius), Radius), Cube(Uinf)), Cq), Uinf)

calculate_hydro_torque(Radius, Uinf, Cq) ==
  FMul(FMul(FMul(halfRhoArea(Radius), Radius), Sq(Uinf)), Cq)

calculate_thrust_force(Radius, Uinf, Ct) == FMul(FMul(halfRhoArea(Radius), Sq(Uinf)), Ct)

\* calculate_phydro on one element
calculate_phydro(self, Uinf, Cp) == FMul(FMul(halfRhoArea(self.Radius), Cube(Uinf)), Cp)

\* calculate_pfluid on one element of Uinf_adjusted
calculate_pfluid(self, Ua) == FMul(halfRhoArea(self.Radius), Cube(Ua))

\* calculate_punc on one element of Uinf_adjusted
calculate_punc(self, Ua) == FMul(self.Kopt, Cube(FDiv(FMul(Ua, self.TSROpt), self.Radius)))

\* calculate_pmech on one element
calculate_pmech(w, Tc) == FMul(w, Tc)

\* calculate_pelec on one element
calculate_pelec(self, w, Tc) == FMul(FMul(w, Tc), self.turbine_efficiency)

----------------------------------------------------------------------------
\* RotorSimulation: the constant-speed solver

\* Number of candidate speeds of the bracket search.
NCand == 50

\* Lines 232-233: TSR of one sample at the candidate speed (np.minimum
\* propagates a NaN)
objectiveTSR(self, speed, radius, u) ==
  Only({ IF IsNaN(r) THEN FNaN ELSE IF FLt(self.TSRmax, r) THEN self.TSRmax ELSE r
         : r \in {IF FNe(u, FZero) THEN FDiv(FMul(speed, radius), u) ELSE FZero} })

\* Line 234: power
objectivePower(self, speed, radius, Uinf) ==
  Arr([i \in DOMAIN Uinf |->
         calculate_phydro(self, Uinf[i], CpFunc(self, objectiveTSR(self, speed, radius, Uinf[i])))])

\* objectiveFunction_findOptimalConstantSpeed(x, radius, Uinf, t, CpFunc): [exc, val]
objectiveFunction_findOptimalConstantSpeed(self, x, radius, Uinf, t) ==
  Only({ IF tz.exc # NoExc THEN [exc |-> tz.exc, val |-> FNaN]
         ELSE [exc |-> NoExc,
               val |-> FMul(FNeg(F1), FDiv(tz.val, FMul(Norm(len(t), 0), mean(diff(t)))))]
         : tz \in {trapezoid(objectivePower(self, x, radius, Uinf), t)} })

\* np.linspace(lo, hi, NCand): lo + j * step, the last entry being hi itself
linspace(lo, hi) ==
  Only({ Arr([j \in 0..(NCand - 1) |->
                IF j = NCand - 1 THEN hi ELSE FAdd(FMul(Norm(j, 0), step), lo)])
         : step \in {FDiv(FSub(hi, lo), Norm(NCand - 1, 0))} })

\* Lines 239-240: possibleSpeedRange
possibleSpeedRange(self) ==
  Only({ linspace(MinTo(possibleSpeed, len(possibleSpeed)),
                  MaxTo(possibleSpeed, len(possibleSpeed)))
         : possibleSpeed \in {Arr([i \in DOMAIN self.Uinf |->
                                     FDiv(FMul(self.TSROpt, self.Uinf[i]), self.Radius)])} })

\* The bounds without the refinement: the two ends of the candidate range.
speedBounds_ends(exc0, range, avePowerRange, positive_indices) ==
  IF exc0 # NoExc
  THEN [exc |-> exc0, range |-> range, avePower |-> avePowerRange,
        pos |-> {}, min_Speed |-> FNaN, max_Speed |-> FNaN]
  ELSE IF positive_indices = {}
  THEN [exc |-> Exc("IndexError", 248), range |-> range, avePower |-> avePowerRange,
        pos |-> {}, min_Speed |-> FNaN, max_Speed |-> FNaN]
  ELSE [exc |-> NoExc, range |-> range, avePower |-> avePowerRange,
        pos |-> positive_indices, min_Speed |-> range[0], max_Speed |-> range[NCand - 1]]

\* Lines 247-249: positive_indices and the bounds read at its two ends
speedBounds(exc0, range, avePowerRange, positive_indices) ==
  IF exc0 # NoExc
  THEN [exc |-> exc0, range |-> range, avePower |-> avePowerRange,
        pos |-> {}, min_Speed |-> FNaN, max_Speed |-> FNaN]
  ELSE IF positive_indices = {}
  THEN [exc |-> Exc("IndexError", 248), range |-> range, avePower |-> avePowerRange,
        pos |-> {}, min_Speed |-> FNaN, max_Speed |-> FNaN]
  ELSE [exc |-> NoExc, range |-> range, avePower |-> avePowerRange,
        pos |-> positive_indices,
        min_Speed |-> range[CHOOSE j \in positive_indices : \A i \in positive_indices : j <= i],
        max_Speed |-> range[CHOOSE j \in positive_indices : \A i \in positive_indices : j >= i]]

\* The bracket search and bound refinement of find_optimal_constant_speed:
\* [exc, range, avePower, pos, min_Speed, max_Speed].
solverBracket(self) ==
  Only({ Only({ Only({ speedBounds(obj[0].exc, range, avePowerRange,
                                   {j \in 0..(NCand - 1) : FGt(avePowerRange[j], FZero)})
                       : avePowerRange \in {Arr([j \in 0..(NCand - 1) |->
                                                   FMul(FNeg(F1), obj[j].val)])} })
                : obj \in {Arr([j \in 0..(NCand - 1) |->
                            objectiveFunction_findOptimalConstantSpeed(
                              self, range[j], self.Radius, self.Uinf, self.t)])} })
         : range \in {possibleSpeedRange(self)} })

\* A minimiser that leaves the bracket: it comes back with half the lower bound.
minimize_scalar_outside(b) == {FDiv(b.min_Speed, F2)}

\* scipy.optimize.minimize_scalar(..., bounds=(min_Speed, max_Speed), method='bounded').x:
\* a library routine; any of these points of the bracket may come back: its two
\* ends and the best candidate in between.
minimize_scalar_bounded(b) ==
  Only({ {b.min_Speed, b.max_Speed,
          b.range[CHOOSE j \in inside : \A i \in inside : FGe(b.avePower[j], b.avePower[i])
                                                          \/ IsNaN(b.avePower[i])]}
         : inside \in {{j \in 0..(NCand - 1) :
                          FLe(b.min_Speed, b.range[j]) /\ FLe(b.range[j], b.max_Speed)}} })

\* find_optimal_constant_speed: [exc, vals], vals the speeds it may return
find_optimal_constant_speed(self) ==
  Only({ IF b.exc # NoExc THEN [exc |-> b.exc, vals |-> {FNaN}]
         ELSE [exc |-> NoExc, vals |-> minimize_scalar_bounded(b)]
         : b \in {solverBracket(self)} })

----------------------------------------------------------------------------
\* RotorSimulation: construction

\* The keys __init__ reads from the config dictionary.
ConfigKeys == {"Radius", "Prated", "dCable", "dMoor", "Uinf", "t", "CpFunc", "CqFunc",
               "CtFunc", "CpOpt", "TSROpt", "TSRmax", "Umin", "withBrake",
               "control_strategy", "attachment_method", "efficiency"}

\* An object on which __init__ has not run: no attribute is set.
NoObject ==
  [Radius |-> FNaN, Prated |-> FNaN, dCable |-> FNaN, dMoor |-> FNaN,
   Uinf |-> Zeros(0), t |-> Zeros(0), CpFunc |-> "", CpOpt |-> FNaN, TSROpt |-> FNaN, TSRmax |-> FNaN,
   Umin |-> FNaN, withBrake |-> FALSE, control_strategy |-> "", attachment_method |-> "",
   turbine_efficiency |-> FNaN, M_turbine |-> FNaN, Wturbine |-> FNaN, Kopt |-> FNaN,
   w |-> Zeros(0), wd |-> Zeros(0), TSR |-> Zeros(0), Tc |-> Zeros(0), Th |-> Zeros(0), Tbrake |-> Zeros(0),
   Ft |-> Zeros(0), Uinf_adjusted |-> NdArray(Zeros(0)), dHub |-> Zeros(0), theta_turbine |-> Zeros(0),
   hasOptimalSpeed |-> FALSE, optimal_speed |-> FNaN,
   hasPower |-> FALSE, Phydro |-> Zeros(0), Pfluid |-> Zeros(0), Punc |-> Zeros(0),
   Pmech |-> Zeros(0), Pelec |-> Zeros(0)]

\* Lines 10-26 of __init__: the attribute copies
copyConfig(config) ==
  [NoObject EXCEPT
     !.Radius = config.Radius, !.Prated = config.Prated, !.dCable = config.dCable,
     !.dMoor = config.dMoor, !.Uinf = config.Uinf, !.t = config.t,
     !.CpFunc = config.CpFunc,
     !.CpOpt = config.CpOpt, !.TSROpt = config.TSROpt, !.TSRmax = config.TSRmax,
     !.Umin = config.Umin, !.withBrake = config.withBrake,
     !.control_strategy = config.control_strategy,
     !.attachment_method = config.attachment_method,
     !.turbine_efficiency = config.efficiency]

\* Lines 10-32 of __init__: the attribute copies, the weight and Kopt.
initAttributes(config) ==
  Only({ [b EXCEPT !.Kopt = calculate_Kopt(b)]
         : b \in { [a EXCEPT !.M_turbine = M, !.Wturbine = FMul(M, g)]
                   : a \in {copyConfig(config)},
                     M \in {UnitWeight(config.Radius, config.Prated)} } })

\* initialize_results: ten zero-filled arrays of the shape of t
initialize_results(self) ==
  Only({ [self EXCEPT !.w = z, !.wd = z, !.TSR = z, !.Tc = z, !.Th = z, !.Tbrake = z, !.Ft = z,
                      !.Uinf_adjusted = NdArray(z), !.dHub = z, !.theta_turbine = z]
         : z \in {Zeros(len(self.t))} })

\* Lines 39-42 of __init__, the solid_bar branch: [exc, self]
initSolidBar(self) ==
  Only({ Only({ IF fl.exc # NoExc THEN [exc |-> fl.exc, self |-> a]
                ELSE [exc |-> NoExc, self |-> [a EXCEPT !.Uinf_adjusted = fl.val]]
                : fl \in {flowAtDepth(NdArray(self.Uinf), self.Radius, NdArray(dHub),
                                      self.dMoor)},
                  a \in {[self EXCEPT !.theta_turbine = Zeros(len(self.t)), !.dHub = dHub]} })
         : dHub \in {Arr([i \in 0..(len(self.t) - 1) |-> FMul(F1, self.dCable)])} })

\* Lines 36-42 of __init__ on the object a with the solver's outcome fo
initStrategy(a, fo) ==
  IF fo.exc # NoExc THEN {[exc |-> fo.exc, self |-> a]}
  ELSE { Only({ IF b.attachment_method = "solid_bar" THEN initSolidBar(b)
                ELSE [exc |-> NoExc, self |-> b]
                : b \in {IF a.control_strategy = "constant_speed"
                         THEN [a EXCEPT !.hasOptimalSpeed = TRUE, !.optimal_speed = x]
                         ELSE a} })
         : x \in fo.vals }

\* RotorSimulation.__init__(config): the set of outcomes [exc, self]; exc names
\* the exception that ends the constructor ("none" when it returns), self is the
\* object as the constructor left it.
RotorSimulation_init(config) ==
  IF ConfigKeys \ config.keys # {}
  THEN {[exc |-> Exc("KeyError", 10), self |-> NoObject]}
  ELSE Only({ initStrategy(a, IF a.control_strategy = "constant_speed"
                              THEN find_optimal_constant_speed(a)
                              ELSE [exc |-> NoExc, vals |-> {FNaN}])
              : a \in {initialize_results(initAttributes(config))} })

----------------------------------------------------------------------------
\* RotorSimulation: the time march

\* self.Uinf_adjusted[kk] can be read: Uinf_adjusted is an array with an entry kk
\* (indexing a numpy scalar, or past the end, raises IndexError).
hasUadj(self, kk) == self.Uinf_adjusted.ndim = 1 /\ kk \in DOMAIN self.Uinf_adjusted.d

\* The mooring angle computed from the thrust of the step being computed.
mooringAngle_sameStep(self, kk) == arctan(FDiv(self.Ft[kk], self.Wturbine))

\* The mooring angle computed from Ft[kk - 1] at every step: at kk = 0 the
\* index -1 is the last entry of Ft.
mooringAngle_wrapAround(self, kk) ==
  arctan(FDiv(self.Ft[(kk - 1) % len(self.Ft)], self.Wturbine))

\* theta_turbine[kk] (lines 74 and 76)
mooringAngle(self, kk) ==
  IF kk = 0 THEN FZero ELSE arctan(FDiv(self.Ft[kk - 1], self.Wturbine))

\* adjust_hub_depth(kk): [exc, self]
adjust_hub_depth(self, kk) ==
  Only({ Only({ IF kk \notin DOMAIN self.Uinf
                THEN [exc |-> Exc("IndexError", 79), self |-> a]
                ELSE [exc |-> NoExc,
                      self |-> [a EXCEPT !.Uinf_adjusted.d[kk] =
                                  flowAtDepth(NdScalar(a.Uinf[kk]), a.Radius,
                                              NdScalar(a.dHub[kk]), a.dMoor).val.d[0]]]
                : a \in {[self EXCEPT
                            !.dHub[kk] = IF kk = 0 THEN self.dCable
                                         ELSE FMul(self.dCable, cos(theta)),
                            !.theta_turbine[kk] = theta]} })
         : theta \in {mooringAngle(self, kk)} })

\* TSR[kk] without the exact-zero guard of lines 87 and 115.
tipSpeedRatio_unguarded(self, w, Ua) ==
  PyMin(FDiv(FMul(w, self.Radius), Ua), self.TSRmax)

\* TSR[kk] of both control laws (lines 87-90 and 115-118)
tipSpeedRatio(self, w, Ua) ==
  IF FNe(Ua, FZero) THEN PyMin(FDiv(FMul(w, self.Radius), Ua), self.TSRmax) ELSE FZero

\* The rated-power clamp dividing the rated power by the efficiency alone.
ratedClamp_perSpeedLost(self, Tc, w) ==
  IF FGt(FMul(FMul(Tc, w), self.turbine_efficiency), self.Prated)
  THEN FDiv(self.Prated, self.turbine_efficiency)
  ELSE Tc

\* The rated-power clamp (lines 95-96 and 123-124)
ratedClamp(self, Tc, w) ==
  IF FGt(FMul(FMul(Tc, w), self.turbine_efficiency), self.Prated)
  THEN FDiv(FDiv(self.Prated, self.turbine_efficiency), w)
  ELSE Tc

\* The cut-in clamp (lines 98-99 and 126-127)
cutInClamp(self, Tc, kk) ==
  IF FLt(self.Uinf_adjusted.d[kk], self.Umin) THEN FZero ELSE Tc

\* The clamps of lines 95-99 as an if / elif chain: the cut-in test is skipped
\* on a step where the rated-power clamp fired.
clampTorque_elif(self, Tc, w, kk) ==
  IF FGt(FMul(FMul(Tc, w), self.turbine_efficiency), self.Prated)
  THEN ratedClamp(self, Tc, w)
  ELSE cutInClamp(self, Tc, kk)

\* Lines 95-99 and 123-127: the rated-power clamp, then the cut-in clamp
clampTorque(self, Tc, w, kk) == cutInClamp(self, ratedClamp(self, Tc, w), kk)

\* wd[kk] (lines 106 and 134)
acceleration(Th, Tc, Tbrake) == FMul(FDiv(F1, Jr), FSub(FSub(Th, Tc), Tbrake))

\* The Euler update dropped after a step whose control torque was forced to 0:
\* the speed is held.
eulerSpeed_heldAfterCutIn(self, kk, dt) ==
  IF self.Tc[kk - 1] = FZero THEN self.w[kk - 1]
  ELSE FAdd(self.w[kk - 1], FMul(self.wd[kk - 1], dt))

\* The Euler update of lines 85 and 113
eulerSpeed(self, kk, dt) == FAdd(self.w[kk - 1], FMul(self.wd[kk - 1], dt))

\* The entries of step kk, and with them the speed of index kk + 1 written
\* ahead of its step.
writeStep_ahead(self, kk, w, TSR, Th, Tc, Tbrake, Ft) ==
  [self EXCEPT !.w = Arr([j \in DOMAIN self.w |-> IF j \in {kk, kk + 1} THEN w ELSE self.w[j]]),
               !.TSR[kk] = TSR, !.Th[kk] = Th, !.Tc[kk] = Tc,
               !.Tbrake[kk] = Tbrake, !.Ft[kk] = Ft,
               !.wd[kk] = acceleration(Th, Tc, Tbrake)]

\* The entries a control law writes at step kk, wd[kk] last (lines 106 and 134)
writeStep(self, kk, w, TSR, Th, Tc, Tbrake, Ft) ==
  [self EXCEPT !.w[kk] = w, !.TSR[kk] = TSR, !.Th[kk] = Th, !.Tc[kk] = Tc,
               !.Tbrake[kk] = Tbrake, !.Ft[kk] = Ft,
               !.wd[kk] = acceleration(Th, Tc, Tbrake)]

\* simulate_optimal_control(kk, dt): [exc, self]
simulate_optimal_control(self, kk, dt) ==
  IF ~hasUadj(self, kk)
  THEN [exc |-> Exc("IndexError", IF kk = 0 THEN 83 ELSE 87),
        self |-> IF kk = 0 THEN self ELSE [self EXCEPT !.w[kk] = eulerSpeed(self, kk, dt)]]
  ELSE Only({ Only({ Only({
         [exc |-> NoExc,
          self |-> writeStep(self, kk, w, TSR, Th, Tc,
                             IF self.withBrake THEN FSub(FMul(Sq(w), self.Kopt), Tc)
                             ELSE self.Tbrake[kk],
                             Ft)]
         : Th \in {calculate_hydro_torque(self.Radius, Ua, CqFunc(self, TSR))},
           Tc \in {clampTorque(self, FMul(self.Kopt, Sq(w)), w, kk)},
           Ft \in {calculate_thrust_force(self.Radius, Ua, CtFunc(self, TSR))} })
         : TSR \in {tipSpeedRatio(self, w, Ua)} })
         : Ua \in {self.Uinf_adjusted.d[kk]},
           w \in {IF kk = 0
                  THEN FDiv(FMul(self.TSROpt, self.Uinf_adjusted.d[kk]), self.Radius)
                  ELSE eulerSpeed(self, kk, dt)} })

\* Lines 121-134 with a brake that takes up the whole control torque, clamped
\* or not.
constantSpeedStep_fullBrake(self, kk, w, Ua, TSR, Th) ==
  Only({ [exc |-> NoExc,
          self |-> writeStep(self, kk, w, TSR, Th, Tc,
                             IF self.withBrake THEN Th ELSE self.Tbrake[kk],
                             calculate_thrust_force(self.Radius, Ua, CtFunc(self, TSR)))]
         : Tc \in {clampTorque(self, Th, w, kk)} })

\* Lines 121-134 with a brake that is never applied.
constantSpeedStep_brakeOff(self, kk, w, Ua, TSR, Th) ==
  Only({ [exc |-> NoExc,
          self |-> writeStep(self, kk, w, TSR, Th, Tc, self.Tbrake[kk],
                             calculate_thrust_force(self.Radius, Ua, CtFunc(self, TSR)))]
         : Tc \in {clampTorque(self, Th, w, kk)} })

\* Lines 121-134 of simulate_constant_speed, Tc starting from Th
constantSpeedStep(self, kk, w, Ua, TSR, Th) ==
  Only({ [exc |-> NoExc,
          self |-> writeStep(self, kk, w, TSR, Th, Tc,
                             IF self.withBrake THEN FSub(Th, Tc) ELSE self.Tbrake[kk],
                             calculate_thrust_force(self.Radius, Ua, CtFunc(self, TSR)))]
         : Tc \in {clampTorque(self, Th, w, kk)} })

\* w[kk] with the solver's speed read at every step.
constantSpeed_held(self, kk, dt) == self.optimal_speed

\* w[kk] of simulate_constant_speed (lines 109-113)
constantSpeed_w(self, kk, dt) ==
  IF kk = 0 THEN self.optimal_speed ELSE eulerSpeed(self, kk, dt)

\* simulate_constant_speed(kk, dt): [exc, self]
simulate_constant_speed(self, kk, dt) ==
  Only({ IF ~hasUadj(self, kk)
         THEN [exc |-> Exc("IndexError", 115), self |-> [self EXCEPT !.w[kk] = w]]
         ELSE Only({ constantSpeedStep(self, kk, w, self.Uinf_adjusted.d[kk], TSR,
                                       calculate_hydro_torque(self.Radius,
                                                              self.Uinf_adjusted.d[kk],
                                                              CqFunc(self, TSR)))
                     : TSR \in {tipSpeedRatio(self, w, self.Uinf_adjusted.d[kk])} })
         : w \in {constantSpeed_w(self, kk, dt)} })

\* Uinf_adjusted as calculate_power's array arithmetic sees it against an array
\* of n entries: a scalar broadcasts, an array of another length (not 1) raises.
broadcastUadj(self, n) ==
  IF self.Uinf_adjusted.ndim = 0
  THEN [exc |-> NoExc, a |-> Arr([i \in 0..(n - 1) |-> self.Uinf_adjusted.d[0]])]
  ELSE IF len(self.Uinf_adjusted.d) = n THEN [exc |-> NoExc, a |-> self.Uinf_adjusted.d]
  ELSE [exc |-> Exc("ValueError", 161), a |-> Zeros(0)]

\* calculate_power(): [exc, self]
calculate_power(self) ==
  Only({ IF u.exc # NoExc THEN [exc |-> u.exc, self |-> self]
         ELSE [exc |-> NoExc,
               self |-> [self EXCEPT
                  !.hasPower = TRUE,
                  !.Phydro = Arr([i \in DOMAIN self.TSR |->
                                    calculate_phydro(self, u.a[i], CpFunc(self, self.TSR[i]))]),
                  !.Pfluid = Arr([i \in DOMAIN self.Uinf_adjusted.d |->
                                    calculate_pfluid(self, self.Uinf_adjusted.d[i])]),
                  !.Punc   = Arr([i \in DOMAIN self.Uinf_adjusted.d |->
                                    calculate_punc(self, self.Uinf_adjusted.d[i])]),
                  !.Pmech  = Arr([i \in DOMAIN self.TSR |->
                                    calculate_pmech(self.w[i], self.Tc[i])]),
                  !.Pelec  = Arr([i \in DOMAIN self.TSR |->
                                    calculate_pelec(self, self.w[i], self.Tc[i])])]]
         : u \in {broadcastUadj(self, len(self.TSR))} })

\* The names of the series get_results() returns beside t and Wturbine.
SeriesNames == {"w", "Tc", "Pmech", "Pelec", "Phydro", "Pfluid", "Punc", "TSR", "Ft", "Th",
                "Tbrake", "theta_turbine", "dHub", "Uinf_adjusted"}

\* get_results(): [exc, val]; val maps each name to [ndim, d]
get_results(self) ==
  IF ~self.hasPower THEN [exc |-> Exc("AttributeError", 172), val |-> << >>]
  ELSE [exc |-> NoExc,
        val |-> [x \in SeriesNames |->
                   IF x = "Uinf_adjusted" THEN self.Uinf_adjusted
                   ELSE IF x \in {"Pfluid", "Punc"}
                        THEN [ndim |-> self.Uinf_adjusted.ndim, d |-> self[x]]
                        ELSE NdArray(self[x])]]

----------------------------------------------------------------------------
\* The configurations the runs are started from

\* Longest time series of the enumerated configs.
MaxN == 2

\* The surface speeds an inflow series is made of: 0, 0.5 and 2 m/s.
FlowValues == {FZero, Lit(1, 2), Lit(2, 1)}

\* The time series of n samples: 0, 1, 2, ... s, or the same falling.
TimeSeries(n, rising) ==
  [i \in 0..(n - 1) |-> IF rising THEN Norm(i, 0) ELSE Norm(n - 1 - i, 0)]

BaseConfig ==
  [keys |-> ConfigKeys,
   Radius |-> F1, Prated |-> Lit(1000, 1), dCable |-> Lit(4, 1), dMoor |-> Lit(16, 1),
   Uinf |-> [i \in 0..0 |-> Lit(2, 1)], t |-> TimeSeries(1, TRUE), CpFunc |-> "parabola",
   CpOpt |-> Lit(4, 10), TSROpt |-> Lit(4, 1), TSRmax |-> Lit(8, 1), Umin |-> Lit(1, 4),
   withBrake |-> FALSE, control_strategy |-> "optimal", attachment_method |-> "cable",
   efficiency |-> Lit(3, 4)]

\* The configs the interface allows: equal lengths, rising time, known strategy
\* and attachment.  dCable 4, 12 and 16 put the rotor band in the uniform
\* region, in the power-law region and across the reference depth 0.
ValidConfigs ==
  { [BaseConfig EXCEPT !.Uinf = u, !.t = TimeSeries(len(u), TRUE), !.Prated = pr,
                       !.dCable = dc, !.Umin = um, !.withBrake = br,
                       !.control_strategy = cs, !.attachment_method = am]
    : u \in UNION {[0..(n - 1) -> FlowValues] : n \in 1..MaxN},
      pr \in {Lit(1000, 1), Lit(100000, 1)},
      dc \in {Lit(4, 1), Lit(12, 1), Lit(16, 1)},
      um \in {F1},
      br \in BOOLEAN,
      cs \in {"optimal", "constant_speed"},
      am \in {"cable", "solid_bar"} }

\* Configs with one defect: a missing key, an unknown strategy or attachment,
\* series of different lengths, a time series that is not increasing.
InvalidConfigs ==
  UNION { { [c EXCEPT !.keys = ConfigKeys \ {"Umin"}],
            [c EXCEPT !.control_strategy = "pid"],
            [c EXCEPT !.attachment_method = "chain"],
            [c EXCEPT !.Uinf = [i \in 0..(MaxN - 2) |-> Lit(2, 1)]],
            [c EXCEPT !.t = TimeSeries(MaxN - 1, TRUE)],
            [c EXCEPT !.t = TimeSeries(MaxN, FALSE)] }
          : c \in { [BaseConfig EXCEPT !.Uinf = [i \in 0..(MaxN - 1) |-> Lit(2, 1)],
                                       !.t = TimeSeries(MaxN, TRUE),
                                       !.control_strategy = cs, !.attachment_method = am]
                    : cs \in {"optimal", "constant_speed"},
                      am \in {"cable", "solid_bar"} } }

\* Valid configs whose Cp curve has the band of no power.
DeadBandConfigs ==
  { [BaseConfig EXCEPT !.Uinf = u, !.t = TimeSeries(len(u), TRUE), !.CpFunc = "deadband",
                       !.control_strategy = cs, !.attachment_method = am]
    : u \in [0..(MaxN - 1) -> FlowValues],
      cs \in {"optimal", "constant_speed"},
      am \in {"cable", "solid_bar"} }

\* Valid configs sampled every 4096 s, so that one Euler step moves the
\* speed by more than a rounding: inflows of 0.5 and 2 m/s, the hub in the
\* uniform region.
LongStepConfigs ==
  { [BaseConfig EXCEPT !.Uinf = u,
                       !.t = [i \in 0..(MaxN - 1) |-> FMul(Norm(i, 0), Lit(4096, 1))],
                       !.Umin = F1, !.withBrake = br,
                       !.control_strategy = cs, !.attachment_method = am]
    : u \in [0..(MaxN - 1) -> {Lit(1, 2), Lit(2, 1)}],
      br \in BOOLEAN,
      cs \in {"optimal", "constant_speed"},
      am \in {"cable", "solid_bar"} }

\* Valid configs of MaxN + 1 samples taken every 16384 s in which the inflow
\* drops from 2 to 0.5 m/s and stays above the cut-in speed 0.25 m/s: optimal
\* control, brake off, rated power out of reach, the hub in the uniform region.
SlowingConfigs ==
  { [BaseConfig EXCEPT !.Uinf = [i \in 0..MaxN |-> IF i = 0 THEN Lit(2, 1) ELSE Lit(1, 2)],
                       !.t = [i \in 0..MaxN |-> FMul(Norm(i, 0), Lit(16384, 1))],
                       !.Prated = Lit(100000, 1), !.Umin = Lit(1, 4), !.withBrake = FALSE,
                       !.control_strategy = "optimal", !.attachment_method = am]
    : am \in {"cable", "solid_bar"} }

Configs ==
  ValidConfigs \cup DeadBandConfigs \cup LongStepConfigs \cup SlowingConfigs \cup InvalidConfigs

----------------------------------------------------------------------------
\* The state machine: one object, constructed, marched by simulate(), read by
\* get_results().

VARIABLES
  config,    \* the config dictionary handed to RotorSimulation(config)
  self,      \* the RotorSimulation object
  pc,        \* "new", "ready" (constructed), "loop" (inside simulate's for loop),
             \* "done" (simulate returned), "returned" (get_results returned), "raised"
  kk,        \* the loop index of simulate()
  hubDone,   \* adjust_hub_depth(kk) has run in this pass of the loop
  dt,        \* simulate's local dt
  exc,       \* the exception raised, "none" if none
  raisedIn,  \* the call that raised it: "__init__", "simulate", "get_results"
  results    \* what get_results() returned

vars == <<config, self, pc, kk, hubDone, dt, exc, raisedIn, results>>

\* The state of the other two systems of this module: a lone call of
\* flowAtDepth, and two RotorSimulation objects side by side.
VARIABLES
  flowCall,  \* the arguments of a call of flowAtDepth and, once it returned, its result
  sims,      \* the two RotorSimulation objects and where each stands
  heap       \* the arrays and shared objects the two objects refer to, by address

others == <<flowCall, sims, heap>>

\* None of the other systems is running.
othersIdle == flowCall = << >> /\ sims = << >> /\ heap = << >>

NoResults == << >>

Init ==
  /\ config \in Configs
  /\ self = NoObject
  /\ pc = "new"
  /\ kk = 0
  /\ hubDone = FALSE
  /\ dt = FNaN
  /\ exc = NoExc
  /\ raisedIn = "none"
  /\ results = NoResults
  /\ othersIdle

\* An exception e leaves the call `where`.
Raise(e, where) == pc' = "raised" /\ exc' = e /\ raisedIn' = where

\* sim = RotorSimulation(config)
Construct ==
  /\ pc = "new"
  /\ \E r \in RotorSimulation_init(config) :
       /\ self' = r.self
       /\ IF r.exc = NoExc
          THEN pc' = "ready" /\ UNCHANGED <<exc, raisedIn>>
          ELSE Raise(r.exc, "__init__")
  /\ UNCHANGED <<config, kk, hubDone, dt, results>>
  /\ UNCHANGED others

\* sim.simulate(), line 57: dt, and the loop starts
SimulateBegin ==
  /\ pc = "ready"
  /\ dt' = mean(diff(self.t))
  /\ kk' = 0
  /\ hubDone' = FALSE
  /\ pc' = "loop"
  /\ UNCHANGED <<config, self, exc, raisedIn, results>>
  /\ UNCHANGED others

\* The hub step of the loop body taken whatever the attachment.
AdjustHubDepth_anyAttachment ==
  /\ pc = "loop" /\ kk < len(self.t)
  /\ ~hubDone
  /\ \E r \in {adjust_hub_depth(self, kk)} :
        /\ self' = r.self
        /\ IF r.exc = NoExc
           THEN hubDone' = TRUE /\ UNCHANGED <<pc, exc, raisedIn>>
           ELSE Raise(r.exc, "simulate") /\ UNCHANGED hubDone
  /\ UNCHANGED <<config, kk, dt, results>>
  /\ UNCHANGED others

\* lines 60-61: the cable branch of the loop body
AdjustHubDepth ==
  /\ pc = "loop" /\ kk < len(self.t)
  /\ self.attachment_method = "cable" /\ ~hubDone
  /\ \E r \in {adjust_hub_depth(self, kk)} :
        /\ self' = r.self
        /\ IF r.exc = NoExc
           THEN hubDone' = TRUE /\ UNCHANGED <<pc, exc, raisedIn>>
           ELSE Raise(r.exc, "simulate") /\ UNCHANGED hubDone
  /\ UNCHANGED <<config, kk, dt, results>>
  /\ UNCHANGED others

\* The control law of the loop body may run before the cable branch.
controlReady_beforeHub ==
  /\ pc = "loop" /\ kk < len(self.t)

\* The control law of the loop body may run: the cable branch is behind.
controlReady ==
  /\ pc = "loop" /\ kk < len(self.t)
  /\ (self.attachment_method = "cable" => hubDone)

\* The loop goes on to kk + 1 with the object r.self, or the exception leaves simulate.
controlDone(r) ==
  /\ self' = r.self
  /\ IF r.exc = NoExc
     THEN kk' = kk + 1 /\ hubDone' = FALSE /\ UNCHANGED <<pc, exc, raisedIn>>
     ELSE Raise(r.exc, "simulate") /\ UNCHANGED <<kk, hubDone>>
  /\ UNCHANGED <<config, dt, results>>
  /\ UNCHANGED others

\* lines 63-64
ControlOptimal ==
  /\ controlReady
  /\ self.control_strategy = "optimal"
  /\ controlDone(simulate_optimal_control(self, kk, dt))

\* lines 65-66
ControlConstantSpeed ==
  /\ controlReady
  /\ self.control_strategy = "constant_speed"
  /\ controlDone(simulate_constant_speed(self, kk, dt))

\* Neither branch of lines 63-66 is taken: the pass writes nothing.
ControlNone ==
  /\ controlReady
  /\ self.control_strategy \notin {"optimal", "constant_speed"}
  /\ controlDone([exc |-> NoExc, self |-> self])

\* calculate_power() called inside the loop as well, after any pass.
CalculatePower_anyPass ==
  /\ pc = "loop" /\ kk <= len(self.t)
  /\ \E r \in {calculate_power(self)} :
        /\ self' = r.self
        /\ IF r.exc = NoExc
           THEN pc' = (IF kk = len(self.t) THEN "done" ELSE pc) /\ UNCHANGED <<exc, raisedIn>>
           ELSE Raise(r.exc, "simulate")
  /\ UNCHANGED <<config, kk, hubDone, dt, results>>
  /\ UNCHANGED others

\* line 69, after the loop: calculate_power(), and simulate returns
CalculatePower ==
  /\ pc = "loop" /\ kk = len(self.t)
  /\ \E r \in {calculate_power(self)} :
        /\ self' = r.self
        /\ IF r.exc = NoExc
           THEN pc' = "done" /\ UNCHANGED <<exc, raisedIn>>
           ELSE Raise(r.exc, "simulate")
  /\ UNCHANGED <<config, kk, hubDone, dt, results>>
  /\ UNCHANGED others

\* sim.get_results(), after simulate() or (a caller's mistake) before it
GetResults ==
  /\ pc \in {"ready", "done"}
  /\ \E r \in {get_results(self)} :
        /\ results' = r.val
        /\ IF r.exc = NoExc
           THEN pc' = "returned" /\ UNCHANGED <<exc, raisedIn>>
           ELSE Raise(r.exc, "get_results")
  /\ UNCHANGED <<config, self, kk, hubDone, dt>>
  /\ UNCHANGED others

Next ==
  \/ Construct
  \/ SimulateBegin
  \/ AdjustHubDepth
  \/ ControlOptimal
  \/ ControlConstantSpeed
  \/ ControlNone
  \/ CalculatePower
  \/ GetResults

Spec == Init /\ [][Next]_vars

----------------------------------------------------------------------------
\* What the claims speak of

\* The indices whose pass of the loop has completed.
stepped == {k \in DOMAIN self.w : k < kk}

\* simulate() has returned.
simulated == pc \in {"done", "returned"}

\* Uinf_adjusted[k], for an index hasUadj allows
Uadj(k) == self.Uinf_adjusted.d[k]

\* Tc[k] * w[k] * efficiency, the electrical power of step k
elecPower(k) == FMul(FMul(self.Tc[k], self.w[k]), self.turbine_efficiency)

\* The control torque of step k before the clamps (lines 93 and 121).
rawTorque(k) ==
  IF self.control_strategy = "optimal" THEN FMul(self.Kopt, Sq(self.w[k])) ELSE self.Th[k]

\* The rated-power clamp fired at step k (the test of lines 95 and 123).
ratedFired(k) ==
  /\ self.control_strategy \in {"optimal", "constant_speed"}
  /\ FGt(FMul(FMul(rawTorque(k), self.w[k]), self.turbine_efficiency), self.Prated)

\* C1: after every completed step k, Tc[k] * w[k] * efficiency <= Prated.
C1_RatedLimit == \A k \in stepped : FLe(elecPower(k), self.Prated)

\* C2: after every completed step k whose adjusted inflow is below the cut-in
\* speed, Tc[k] is exactly 0, under either strategy, whether or not the
\* rated-power clamp fired on that step.
C2_CutInClamp ==
  \A k \in stepped :
    (hasUadj(self, k) /\ FLt(Uadj(k), self.Umin)) => self.Tc[k] = FZero

\* A completed step below cut-in on which the rated-power clamp fired first.
C2_Witness ==
  \E k \in stepped :
    /\ hasUadj(self, k) /\ FLt(Uadj(k), self.Umin)
    /\ ratedFired(k)
    /\ self.Tc[k] = FZero

\* The state series simulate() fills, by attribute name.
StateNames == {"theta_turbine", "dHub", "Uinf_adjusted", "w", "TSR", "Th", "Tc", "Tbrake",
               "Ft", "wd"}

\* The entries of the series `name` of the object s
series(s, name) == IF name = "Uinf_adjusted" THEN s.Uinf_adjusted.d ELSE s[name]

\* The cable branch of the loop body is the next thing to run.
hubPending == self.attachment_method = "cable" /\ ~hubDone

\* The series the next part of the loop body writes at index kk.
written ==
  IF hubPending THEN {"theta_turbine", "dHub", "Uinf_adjusted"}
  ELSE IF self.control_strategy \in {"optimal", "constant_speed"}
       THEN {"w", "TSR", "Th", "Tc", "Tbrake", "Ft", "wd"}
       ELSE {}

\* The entries the next part of the loop body may depend on: index kk - 1, and
\* index kk of what this pass or the constructor has written already (the hub
\* series once the cable branch is behind; Tbrake when the brake is off, which
\* is then the zero of the allocation).
readable(name, j) ==
  \/ j = kk - 1
  \/ /\ j = kk
     /\ ~hubPending
     /\ \/ name \in {"theta_turbine", "dHub", "Uinf_adjusted"}
        \/ name = "Tbrake" /\ ~self.withBrake

\* The object with every state entry that is not readable replaced by NaN.
poisonedSeries(name) ==
  Arr([j \in DOMAIN series(self, name) |->
         IF readable(name, j) THEN series(self, name)[j] ELSE FNaN])

poisoned ==
  [self EXCEPT !.theta_turbine = poisonedSeries("theta_turbine"),
               !.dHub = poisonedSeries("dHub"),
               !.Uinf_adjusted.d = poisonedSeries("Uinf_adjusted"),
               !.w = poisonedSeries("w"), !.TSR = poisonedSeries("TSR"),
               !.Th = poisonedSeries("Th"), !.Tc = poisonedSeries("Tc"),
               !.Tbrake = poisonedSeries("Tbrake"), !.Ft = poisonedSeries("Ft"),
               !.wd = poisonedSeries("wd")]

\* The object the next part of the loop body leaves when it starts from s.
bodyFrom(s) ==
  IF hubPending THEN adjust_hub_depth(s, kk).self
  ELSE IF s.control_strategy = "optimal" THEN simulate_optimal_control(s, kk, dt).self
  ELSE IF s.control_strategy = "constant_speed" THEN simulate_constant_speed(s, kk, dt).self
  ELSE s

\* Inside the loop of simulate(), with a pass still to run.
inLoop == pc = "loop" /\ kk < len(self.t)

\* One part of the loop body: it changes no entry but those it writes at index
\* kk, and what it writes there is what it writes from the poisoned object (an
\* entry it did not reach before an exception keeps its value).
causalStep ==
  inLoop =>
    \A name \in StateNames : \A j \in DOMAIN series(self, name) :
      IF name \in written /\ j = kk
      THEN \/ series(self', name)[j] = series(bodyFrom(poisoned), name)[j]
           \/ pc' = "raised" /\ series(self', name)[j] = series(self, name)[j]
      ELSE series(self', name)[j] = series(self, name)[j]

\* C3: during simulate() the values written at index kk depend on the config,
\* on state entries of index kk - 1 and on entries of index kk written earlier
\* in the pass only (no entry of a later index is read), and with the brake off
\* the Tbrake[kk] the pass reads is the zero of the allocation.
C3_Causality ==
  /\ [][causalStep]_vars
  /\ [](\A j \in DOMAIN self.Tbrake : ~self.withBrake => self.Tbrake[j] = FZero)

\* A pass k > 0 completed by a control law, its own entries non-zero and a later
\* index still ahead of it while it ran (N > k).
C3_Witness ==
  \E k \in stepped :
    /\ k > 0 /\ pc = "loop"
    /\ self.control_strategy \in {"optimal", "constant_speed"}
    /\ self.attachment_method = "cable"
    /\ FGt(self.w[k], FZero) /\ FGt(self.Ft[k - 1], FZero)
    /\ FGt(self.theta_turbine[k], FZero)

\* The indices whose hub depth adjust_hub_depth has set.
hubAdjusted == {k \in DOMAIN self.dHub : k < kk \/ (k = kk /\ hubDone)}

\* C4: with cable attachment theta[0] = 0 and dHub[0] = dCable, and for k > 0
\* theta[k] = atan(Ft[k-1] / Wturbine), dHub[k] = dCable * cos(theta[k]), with
\* dHub[k] < dCable whenever Ft[k-1] # 0; Ft[k] is unwritten when the hub depth
\* of step k is set.
C4_CableLag ==
  self.attachment_method = "cable" =>
    \A k \in hubAdjusted :
      /\ k = 0 => self.theta_turbine[0] = FZero /\ self.dHub[0] = self.dCable
      /\ k > 0 =>
           /\ self.theta_turbine[k] = arctan(FDiv(self.Ft[k - 1], self.Wturbine))
           /\ self.dHub[k] = FMul(self.dCable, cos(self.theta_turbine[k]))
           /\ FNe(self.Ft[k - 1], FZero) => FLt(self.dHub[k], self.dCable)
      /\ (k = kk /\ hubDone) => self.Ft[k] = FZero

\* C5: for every valid config, once the object is constructed simulate() runs
\* to its end and every series get_results() returns is an array of
\* N = len(t) entries.
C5_SeriesLength ==
  config \in ValidConfigs =>
    /\ raisedIn # "simulate"
    /\ pc = "returned" =>
         \A x \in SeriesNames :
           results[x].ndim = 1 /\ DOMAIN results[x].d = DOMAIN config.t

\* C6: an invalid config is rejected by the constructor with a
\* ConfigurationError; simulate() raises nothing, and returns only after a
\* control law has computed the series.
C6_RejectInvalid ==
  /\ config \in InvalidConfigs =>
       /\ pc \in {"new", "raised"}
       /\ pc = "raised" => exc.type = "ConfigurationError" /\ raisedIn = "__init__"
  /\ raisedIn # "simulate"
  /\ simulated => self.control_strategy \in {"optimal", "constant_speed"}

\* The inflow series of the config is all zero: no candidate speed of the
\* constant-speed solver has positive mean power.
allZeroInflow == \A i \in DOMAIN config.Uinf : config.Uinf[i] = FZero

\* C7: with the constant_speed strategy and no candidate of positive mean power
\* (an all-zero inflow series), construction fails with a
\* DegenerateOptimizationError.
C7_DegenerateError ==
  (config \in ValidConfigs /\ config.control_strategy = "constant_speed" /\ allZeroInflow
   /\ pc # "new")
    => pc = "raised" /\ raisedIn = "__init__" /\ exc.type = "DegenerateOptimizationError"

\* C8: after every completed step k with a non-zero adjusted inflow,
\* TSR[k] <= TSRmax.
C8_TSRBound ==
  \A k \in stepped :
    (self.control_strategy \in {"optimal", "constant_speed"} /\ hasUadj(self, k)
     /\ FNe(Uadj(k), FZero))
      => FLe(self.TSR[k], self.TSRmax)

\* C9 as stated: after every completed step k, TSR[k] == 0 if and only if
\* Uinf_adjusted[k] == 0.
C9_TSRZeroIff ==
  \A k \in stepped :
    (self.control_strategy \in {"optimal", "constant_speed"} /\ hasUadj(self, k))
      => (FEq(self.TSR[k], FZero) <=> FEq(Uadj(k), FZero))

\* C9: after every completed step k whose adjusted inflow is 0, TSR[k] is
\* exactly 0 (the exact-zero guard), whatever the rotor speed.
C9_TSRZeroGuard ==
  \A k \in stepped :
    (self.control_strategy \in {"optimal", "constant_speed"} /\ hasUadj(self, k)
     /\ FEq(Uadj(k), FZero))
      => self.TSR[k] = FZero

\* A completed step with zero adjusted inflow and a turning rotor: the quotient
\* w R / U the guard skips has a zero divisor.
C9_Witness ==
  \E k \in stepped :
    /\ self.control_strategy \in {"optimal", "constant_speed"}
    /\ hasUadj(self, k) /\ FEq(Uadj(k), FZero)
    /\ FGt(self.w[k], FZero)
    /\ self.TSR[k] = FZero

\* A control law is about to run step kk with a zero adjusted inflow.
zeroInflowStep ==
  /\ controlReady
  /\ self.control_strategy \in {"optimal", "constant_speed"}
  /\ hasUadj(self, kk)
  /\ FEq(Uadj(kk), FZero)

\* C10: a step kk with Uinf_adjusted[kk] == 0 completes without an exception,
\* with TSR[kk] = 0 and Th[kk] = 0 and no infinity from a division by zero, and
\* the march goes on to kk + 1.
C10_ZeroInflowDefined ==
  [][zeroInflowStep =>
       /\ pc' = "loop" /\ kk' = kk + 1 /\ exc' = NoExc
       /\ self'.TSR[kk] = FZero /\ self'.Th[kk] = FZero
       /\ \A name \in {"w", "Tc", "Tbrake", "Ft", "wd"} : ~IsInf(self'[name][kk])]_vars

\* The march has gone past a step of zero adjusted inflow and completed the
\* step after it.
C10_Witness ==
  \E k \in stepped :
    /\ self.control_strategy \in {"optimal", "constant_speed"}
    /\ hasUadj(self, k) /\ FEq(Uadj(k), FZero)
    /\ self.TSR[k] = FZero /\ self.Th[k] = FZero
    /\ k + 1 \in stepped
    /\ pc = "loop"

----------------------------------------------------------------------------
\* C11

\* Every entry of the state series `name` of the object s is zero.
zeroFilled(s, name) == \A j \in DOMAIN series(s, name) : series(s, name)[j] = FZero

\* The state series the march of the object s assigns: the hub series under the
\* cable attachment (the solid_bar branch of the constructor has assigned them
\* already), the control series under either control law.
marchSeries(s) ==
  (IF s.attachment_method = "cable" THEN {"theta_turbine", "dHub", "Uinf_adjusted"} ELSE {})
  \cup (IF s.control_strategy \in {"optimal", "constant_speed"}
        THEN {"w", "TSR", "Th", "Tc", "Tbrake", "Ft", "wd"} ELSE {})

\* Entry j of the series `name` has not been reached by the march yet.
unassigned(name, j) ==
  \/ j > kk
  \/ j = kk /\ (name \in {"theta_turbine", "dHub", "Uinf_adjusted"} => hubPending)

\* Until its step an entry holds the zero of the allocation: the march has not
\* assigned it before, so that each entry is assigned in one step only, and the
\* steps come in increasing index order.
unassignedAreZero ==
  pc \in {"ready", "loop"} =>
    \A name \in marchSeries(self) : \A j \in DOMAIN series(self, name) :
      unassigned(name, j) => series(self, name)[j] = FZero

\* One step of the program, as the state series see it.
writeOnceStep ==
  /\ (pc = "new" /\ ConfigKeys \subseteq config.keys) =>
        \A name \in StateNames : zeroFilled(initialize_results(initAttributes(config)), name)
  /\ inLoop =>
        \A name \in StateNames :
          /\ DOMAIN series(self', name) = DOMAIN series(self, name)
          /\ \A j \in DOMAIN series(self, name) :
               j # kk => series(self', name)[j] = series(self, name)[j]
  /\ (pc # "new" /\ ~inLoop) =>
        \A name \in StateNames : series(self', name) = series(self, name)

----------------------------------------------------------------------------
\* C14

\* The constructor has returned an object.
constructed == pc \in {"ready", "loop", "done", "returned"}

\* The speeds find_optimal_constant_speed may return for the config.
solverSpeeds == find_optimal_constant_speed(initialize_results(initAttributes(config))).vals

\* The object with the solver's result hidden.
withoutSpeed(s) == [s EXCEPT !.optimal_speed = FNaN]

\* One step of the program, as the solver's result sees it: it is set by the
\* constructor, under constant_speed only, to what the solver returns; no later
\* step sets it; a step of index kk >= 1 assigns what it assigns with the
\* result hidden.
solverOnceStep ==
  /\ pc = "new" =>
       /\ self'.hasOptimalSpeed => /\ self'.control_strategy = "constant_speed"
                                   /\ self'.optimal_speed \in solverSpeeds
       /\ ~self'.hasOptimalSpeed => self'.optimal_speed = NoObject.optimal_speed
  /\ pc # "new" =>
       /\ self'.hasOptimalSpeed = self.hasOptimalSpeed
       /\ self'.optimal_speed = self.optimal_speed
  /\ (inLoop /\ ~hubPending /\ self.control_strategy = "constant_speed" /\ kk >= 1) =>
       \A name \in StateNames :
         series(self', name) = series(simulate_constant_speed(withoutSpeed(self), kk, dt).self, name)

\* C14: the solver's result is set once, by the constructor (so before step 0
\* of the march), and exactly when the strategy is constant_speed; step 0 of the
\* constant-speed law takes it as w[0]; no step changes it and no step of
\* index >= 1 reads it.
C14_SolverOnce ==
  /\ [][solverOnceStep]_vars
  /\ [](constructed => (self.hasOptimalSpeed <=> self.control_strategy = "constant_speed"))
  /\ [](self.control_strategy = "constant_speed" =>
          \A k \in stepped : k = 0 => self.w[0] = self.optimal_speed)

\* A constant-speed run of two steps has returned, w[0] being the solver's speed.
C14_Witness ==
  /\ pc = "returned" /\ exc = NoExc /\ self.control_strategy = "constant_speed"
  /\ len(self.w) = 2 /\ self.hasOptimalSpeed
  /\ self.w[0] = self.optimal_speed /\ self.optimal_speed # FZero

----------------------------------------------------------------------------
\* C15

\* The constructor has returned an object for which the solver ran.
solved == pc = "ready" /\ self.hasOptimalSpeed

\* Candidate j lies between the refined bounds of the bracket b.
betweenBounds(b, j) == FLe(b.min_Speed, b.range[j]) /\ FLe(b.range[j], b.max_Speed)

\* Candidate j of the bracket b has strictly positive mean power.
positivePower(b, j) == FGt(b.avePower[j], FZero)

----------------------------------------------------------------------------
\* C16

\* The solver objective of the object s at the candidate speed x
objectiveAt(s, x) ==
  objectiveFunction_findOptimalConstantSpeed(s, x, s.Radius, s.Uinf, s.t).val

\* Minus the trapezoid integral over t of the hydrodynamic power at the speed
\* x, divided by the elapsed time t[N-1] - t[0].
meanOverElapsed(s, x) ==
  FNeg(FDiv(trapezoid(objectivePower(s, x, s.Radius, s.Uinf), s.t).val,
            FSub(s.t[len(s.t) - 1], s.t[0])))

\* C16: the solver objective at a candidate speed (here the speed the solver
\* returned) is minus the trapezoid integral of the hydrodynamic power divided by
\* the elapsed time t[N-1] - t[0], the TSR of each sample being at most TSRmax,
\* and 0 where the raw inflow is 0.
C16_ObjectiveMean ==
  solved =>
    /\ objectiveAt(self, self.optimal_speed) = meanOverElapsed(self, self.optimal_speed)
    /\ \A i \in DOMAIN self.Uinf :
         /\ FLe(objectiveTSR(self, self.optimal_speed, self.Radius, self.Uinf[i]), self.TSRmax)
         /\ self.Uinf[i] = FZero =>
              objectiveTSR(self, self.optimal_speed, self.Radius, self.Uinf[i]) = FZero

----------------------------------------------------------------------------
\* C17

\* The config asks for the constant-speed solver on a strictly positive,
\* constant inflow series, with the parabola Cp (one interior maximum).
constantPositiveFlow ==
  /\ config \in ValidConfigs
  /\ config.control_strategy = "constant_speed"
  /\ \A i \in DOMAIN config.Uinf : FGt(config.Uinf[i], FZero) /\ config.Uinf[i] = config.Uinf[0]

\* The constructor has returned, and the mean power at the speed the solver
\* returned is at least that of each of the 50 candidates.
noWorseThanCandidates ==
  /\ raisedIn # "__init__"
  /\ pc = "ready" =>
       \A b \in {solverBracket(self)} : \A j \in 0..(NCand - 1) :
         FGe(FNeg(objectiveAt(self, self.optimal_speed)), b.avePower[j])

----------------------------------------------------------------------------
\* flowAtDepth called on its own: a scalar call, or a call on arrays.

\* Nothing of the one-object system is running.
simIdle ==
  /\ config = << >> /\ self = NoObject /\ pc = "idle" /\ kk = 0 /\ hubDone = FALSE
  /\ dt = FNaN /\ exc = NoExc /\ raisedIn = "none" /\ results = NoResults

\* The radii, hub depths and mooring depths of the scalar calls: hub depths
\* above the surface of the mooring reference, across the half-depth, within a
\* radius of depth 0 and below it.
FlowRadii == {Lit(1, 2), F1, F2}

FlowDepths == {FNeg(F2), FZero, F2, Lit(4, 1), Lit(7, 1), Lit(8, 1), Lit(9, 1), Lit(12, 1),
               Lit(14, 1), Lit(16, 1), Lit(18, 1)}

FlowMoorings == {Lit(8, 1), Lit(16, 1)}

\* The hub depths of the array calls.
FlowArrayDepths == {Lit(4, 1), Lit(8, 1), Lit(16, 1)}

\* A call that has not returned.
Call(FlowSpeed, Radius, dHub, dMoor) ==
  [FlowSpeed |-> FlowSpeed, Radius |-> Radius, dHub |-> dHub, dMoor |-> dMoor,
   returned |-> FALSE, ret |-> [exc |-> NoExc, val |-> NdScalar(FNaN)]]

ScalarCalls ==
  { Call(NdScalar(u), r, NdScalar(d), m)
    : u \in FlowValues, r \in FlowRadii, d \in FlowDepths, m \in FlowMoorings }

ArrayCalls ==
  UNION { { Call(NdArray(u), F1, NdArray(d), Lit(16, 1))
            : u \in [0..(n - 1) -> FlowValues], d \in [0..(n - 1) -> FlowArrayDepths] }
          : n \in 1..MaxN }

FlowInit ==
  /\ flowCall \in ScalarCalls \cup ArrayCalls
  /\ simIdle /\ sims = << >> /\ heap = << >>

\* The call returns what flowAtDepth computes from the arguments.
flowReturn ==
  /\ ~flowCall.returned
  /\ flowCall' = [flowCall EXCEPT
                    !.returned = TRUE,
                    !.ret = flowAtDepth(flowCall.FlowSpeed, flowCall.Radius, flowCall.dHub,
                                        flowCall.dMoor)]
  /\ UNCHANGED <<vars, sims, heap>>

\* flowAtDepth(U, R, dHub, dMoor) with scalars (np.isscalar(FlowSpeed), line 200)
FlowScalarCall == flowCall.FlowSpeed.ndim = 0 /\ flowReturn

\* flowAtDepth(U, R, dHub, dMoor) with arrays of one length
FlowArrayCall == flowCall.FlowSpeed.ndim = 1 /\ flowReturn

FlowNext == FlowScalarCall \/ FlowArrayCall

SpecFlow == FlowInit /\ [][FlowNext]_flowCall

----------------------------------------------------------------------------
\* C18

\* The bounds the case split chooses for element i of the call.
boundsOf(i) ==
  flowBounds(flowCall.Radius, FSub(flowCall.dMoor, flowCall.dHub.d[i]), flowCall.dMoor)

\* The lower and upper edge of the rotor band of element i, and the half-depth.
bandLow(i) == FSub(FSub(flowCall.dMoor, flowCall.dHub.d[i]), flowCall.Radius)

bandHigh(i) == FAdd(FSub(flowCall.dMoor, flowCall.dHub.d[i]), flowCall.Radius)

halfDepth == FMul(Lit(5, 10), flowCall.dMoor)

\* The case chosen is the one the position of the band asks for, and the two
\* interval lengths are not negative.
soundBounds(b, i) ==
  /\ b.case \in {1, 2, 3}
  /\ b.case = 1 => FLe(bandHigh(i), halfDepth)
  /\ b.case = 2 => FGe(bandLow(i), halfDepth)
  /\ b.case = 3 => FLe(bandLow(i), halfDepth) /\ FLe(halfDepth, bandHigh(i))
  /\ FLt(bandHigh(i), halfDepth) => b.case = 1
  /\ FGt(bandLow(i), halfDepth) => b.case = 2
  /\ (FLt(bandLow(i), halfDepth) /\ FLt(halfDepth, bandHigh(i))) => b.case = 3
  /\ FGe(FSub(b.Zb, b.Za), FZero) /\ FGe(FSub(b.Zd, b.Zc), FZero)
  /\ b.case = 1 => FSub(b.Zd, b.Zc) = FZero
  /\ b.case = 2 => FSub(b.Zb, b.Za) = FZero

\* C18: for every radius > 0, hub depth and mooring depth, flowAtDepth takes
\* exactly one of the three cases, the one where the band lies (within the
\* power-law region, within the uniform region, across the half-depth), and the
\* bounds it sets give Zb - Za >= 0 and Zd - Zc >= 0, the uniform length being 0
\* in case 1 and the power-law length 0 in case 2.
C18_CaseSplit ==
  flowCall.returned =>
    \A i \in DOMAIN flowCall.FlowSpeed.d : \A b \in {boundsOf(i)} : soundBounds(b, i)

\* A call has returned whose band lies across the half-depth, with both
\* sub-intervals of positive length.
C18_Witness ==
  /\ flowCall.returned
  /\ \E i \in DOMAIN flowCall.FlowSpeed.d : \A b \in {boundsOf(i)} :
       b.case = 3 /\ FGt(FSub(b.Zb, b.Za), FZero) /\ FGt(FSub(b.Zd, b.Zc), FZero)

----------------------------------------------------------------------------
\* C19

\* C19: a scalar call of flowAtDepth with surface speed 0 returns 0, whatever
\* the radius, the hub depth and the mooring depth.
C19_ZeroSpeed ==
  (flowCall.returned /\ flowCall.FlowSpeed.ndim = 0 /\ flowCall.FlowSpeed.d[0] = FZero)
    => flowCall.ret.exc = NoExc /\ flowCall.ret.val = NdScalar(FZero)

----------------------------------------------------------------------------
\* C20

\* What the scalar call on element i of the arguments returns.
scalarCallOn(i) ==
  flowAtDepth(NdScalar(flowCall.FlowSpeed.d[i]), flowCall.Radius,
              NdScalar(flowCall.dHub.d[i]), flowCall.dMoor).val.d[0]

\* C20: a call of flowAtDepth on arrays of n >= 1 entries returns an array of n
\* entries, entry i being what the scalar call on (FlowSpeed[i], dHub[i]) returns.
C20_Elementwise ==
  (flowCall.returned /\ flowCall.FlowSpeed.ndim = 1) =>
    /\ flowCall.ret.exc = NoExc
    /\ flowCall.ret.val.ndim = 1
    /\ DOMAIN flowCall.ret.val.d = DOMAIN flowCall.FlowSpeed.d
    /\ \A i \in DOMAIN flowCall.FlowSpeed.d : flowCall.ret.val.d[i] = scalarCallOn(i)

----------------------------------------------------------------------------
\* Two RotorSimulation objects side by side: the steps of their constructors and
\* of their simulate() calls interleave.  An attribute that holds an array holds
\* its address, the array is in the heap; so is the ConstantsGlobal singleton.

Sims == {1, 2}

\* The attributes that refer to arrays: the state series, and the two series of
\* the config.
ArrayFields == StateNames \cup {"Uinf", "t"}

\* Where the constructor of object i puts the array of its attribute `name`:
\* in one array for all objects.
allocate_shared(i, name) == <<"sim", 1, name>>

\* Where the constructor of object i puts the array of its attribute `name`
\* (np.zeros, np.ones * dCable and flowAtDepth's Uout are new arrays).
allocate(i, name) == <<"sim", i, name>>

\* The address of the series `name` of the config dictionary c.
configArray(c, name) == <<"config", c, name>>

\* The address of the ConstantsGlobal singleton (ConstantsGlobal._instance).
singleton == <<"ConstantsGlobal", 0, "_instance">>

\* The object or config dictionary o with each address among the attributes
\* `fields` replaced by the array it refers to.
deref(o, fields) == [f \in DOMAIN o |-> IF f \in fields THEN heap[o[f]] ELSE o[f]]

\* The config dictionary of object i as its constructor reads it.
configOf(i) == deref(sims[i].config, {"Uinf", "t"})

\* Object i as its methods read it.
objectOf(i) == deref(sims[i].self, ArrayFields)

\* The attributes of object i once a method leaves it as the object s: an
\* array attribute keeps its address, the others take their values.
attributesAfter(i, s) ==
  [f \in DOMAIN s |-> IF f \in ArrayFields THEN sims[i].self[f] ELSE s[f]]

\* The heap once a method of object i leaves the object as s: the arrays its
\* attributes refer to hold the entries of s.
heapAfter(i, s) ==
  [a \in DOMAIN heap |->
     IF \E f \in ArrayFields : sims[i].self[f] = a
     THEN s[CHOOSE f \in ArrayFields : sims[i].self[f] = a]
     ELSE heap[a]]

\* The attributes of object i as its constructor leaves them: the state series
\* in arrays of its own, Uinf and t the arrays of the config (lines 14-15).
attributesNew(i, s) ==
  [f \in DOMAIN s |-> IF f \in StateNames THEN allocate(i, f)
                      ELSE IF f \in {"Uinf", "t"} THEN sims[i].config[f]
                      ELSE s[f]]

\* The heap once the constructor of object i has left the object as s: the
\* singleton exists (line 28), the state arrays are allocated.
heapNew(i, s) ==
  [a \in DOMAIN heap \cup {singleton} \cup {allocate(i, f) : f \in StateNames} |->
     IF \E f \in StateNames : allocate(i, f) = a
     THEN s[CHOOSE f \in StateNames : allocate(i, f) = a]
     ELSE IF a = singleton THEN [rho |-> rho, g |-> g]
     ELSE heap[a]]

\* The configs of the two objects: two samples, the hub in the power-law
\* region, the brake on.
ParConfigs ==
  { [BaseConfig EXCEPT !.Uinf = [i \in 0..1 |-> IF i = 0 THEN Lit(2, 1) ELSE Lit(1, 2)],
                       !.t = TimeSeries(2, TRUE), !.dCable = Lit(12, 1), !.withBrake = TRUE, !.Umin = F1,
                       !.control_strategy = cs, !.attachment_method = am]
    : cs \in {"optimal", "constant_speed"}, am \in {"cable", "solid_bar"} }

\* An object before its constructor, to be built from the config dictionary c
\* whose series are at the addresses of dictionary number n.
NewSim(c, n) ==
  [config |-> [c EXCEPT !.Uinf = configArray(n, "Uinf"), !.t = configArray(n, "t")],
   self |-> NoObject, pc |-> "new", kk |-> 0, hubDone |-> FALSE, dt |-> FNaN,
   exc |-> NoExc, again |-> FALSE, built |-> NoObject, firstRun |-> NoResults]

\* Both objects are built from one config dictionary, or each from its own.
ParInit ==
  /\ \E c1, c2 \in ParConfigs : \E oneDict \in BOOLEAN :
       /\ oneDict => c2 = c1
       /\ sims = [i \in Sims |-> IF i = 1 THEN NewSim(c1, 1)
                                 ELSE NewSim(c2, IF oneDict THEN 1 ELSE 2)]
       /\ heap = [a \in {configArray(n, f) : n \in (IF oneDict THEN {1} ELSE {1, 2}),
                                             f \in {"Uinf", "t"}} |->
                    IF a[2] = 1 THEN c1[a[3]] ELSE c2[a[3]]]
  /\ simIdle /\ flowCall = << >>

\* A method of object i has left the object as r.self: the arrays it refers to
\* and its other attributes are as the method left them; an exception ends
\* the object's run.
parLeaves(i, r) ==
  /\ heap' = heapAfter(i, r.self)
  /\ UNCHANGED <<vars, flowCall>>

\* sim_i = RotorSimulation(config), lines 9-42; `built` keeps the object as the
\* constructor returned it, arrays and all.
ParConstruct(i) ==
  /\ sims[i].pc = "new"
  /\ \E r \in RotorSimulation_init(configOf(i)) :
       /\ heap' = heapNew(i, r.self)
       /\ sims' = [sims EXCEPT ![i].self = attributesNew(i, r.self),
                               ![i].built = r.self,
                               ![i].exc = r.exc,
                               ![i].pc = IF r.exc = NoExc THEN "ready" ELSE "raised"]
  /\ UNCHANGED <<vars, flowCall>>

\* sim_i.simulate(), line 57, on a new object or on one whose simulate() has
\* returned once: dt, and the loop starts.
ParSimulateBegin(i) ==
  /\ sims[i].pc = "ready" \/ (sims[i].pc = "done" /\ ~sims[i].again)
  /\ sims' = [sims EXCEPT ![i].dt = mean(diff(objectOf(i).t)),
                          ![i].kk = 0, ![i].hubDone = FALSE, ![i].pc = "loop",
                          ![i].again = (sims[i].pc = "done")]
  /\ UNCHANGED <<heap, vars, flowCall>>

\* lines 60-61 of object i
ParAdjustHubDepth(i) ==
  /\ sims[i].pc = "loop" /\ sims[i].kk < len(objectOf(i).t)
  /\ sims[i].self.attachment_method = "cable" /\ ~sims[i].hubDone
  /\ \E r \in {adjust_hub_depth(objectOf(i), sims[i].kk)} :
       /\ parLeaves(i, r)
       /\ sims' = [sims EXCEPT ![i].self = attributesAfter(i, r.self),
                               ![i].exc = r.exc,
                               ![i].hubDone = (r.exc = NoExc),
                               ![i].pc = IF r.exc = NoExc THEN @ ELSE "raised"]

\* The control law of object i (lines 63-66) has left it as r.self.
parControlDone(i, r) ==
  /\ parLeaves(i, r)
  /\ sims' = [sims EXCEPT ![i].self = attributesAfter(i, r.self),
                          ![i].exc = r.exc,
                          ![i].kk = IF r.exc = NoExc THEN @ + 1 ELSE @,
                          ![i].hubDone = IF r.exc = NoExc THEN FALSE ELSE @,
                          ![i].pc = IF r.exc = NoExc THEN @ ELSE "raised"]

\* The control law of the loop body of object i may run.
parControlReady(i) ==
  /\ sims[i].pc = "loop" /\ sims[i].kk < len(objectOf(i).t)
  /\ (sims[i].self.attachment_method = "cable" => sims[i].hubDone)

\* lines 63-64 of object i
ParControlOptimal(i) ==
  /\ parControlReady(i)
  /\ sims[i].self.control_strategy = "optimal"
  /\ parControlDone(i, simulate_optimal_control(objectOf(i), sims[i].kk, sims[i].dt))

\* lines 65-66 of object i
ParControlConstantSpeed(i) ==
  /\ parControlReady(i)
  /\ sims[i].self.control_strategy = "constant_speed"
  /\ parControlDone(i, simulate_constant_speed(objectOf(i), sims[i].kk, sims[i].dt))

\* line 69 of object i: calculate_power(), and simulate returns; the caller
\* keeps the results of the first call (get_results copies nothing, so the
\* caller copies).
ParCalculatePower(i) ==
  /\ sims[i].pc = "loop" /\ sims[i].kk = len(objectOf(i).t)
  /\ \E r \in {calculate_power(objectOf(i))} :
       /\ parLeaves(i, r)
       /\ sims' = [sims EXCEPT ![i].self = attributesAfter(i, r.self),
                               ![i].exc = r.exc,
                               ![i].pc = IF r.exc = NoExc THEN "done" ELSE "raised",
                               ![i].firstRun = IF r.exc = NoExc /\ ~sims[i].again
                                               THEN get_results(r.self).val ELSE @]

ParNext ==
  \/ \E i \in Sims : ParConstruct(i)
  \/ \E i \in Sims : ParSimulateBegin(i)
  \/ \E i \in Sims : ParAdjustHubDepth(i)
  \/ \E i \in Sims : ParControlOptimal(i)
  \/ \E i \in Sims : ParControlConstantSpeed(i)
  \/ \E i \in Sims : ParCalculatePower(i)

SpecPar == ParInit /\ [][ParNext]_<<sims, heap>>

----------------------------------------------------------------------------
\* simulate() as one call, lines 56-69: [exc, self]

\* The cable branch of the loop body, lines 60-61.
hubStep(s, k) ==
  IF s.attachment_method = "cable" THEN adjust_hub_depth(s, k)
  ELSE [exc |-> NoExc, self |-> s]

\* The control law of the loop body, lines 63-66.
controlLaw(s, k, d) ==
  IF s.control_strategy = "optimal" THEN simulate_optimal_control(s, k, d)
  ELSE IF s.control_strategy = "constant_speed" THEN simulate_constant_speed(s, k, d)
  ELSE [exc |-> NoExc, self |-> s]

RECURSIVE simulateFrom(_, _, _)
\* The loop of lines 59-66 from step k on, then calculate_power (line 69).
simulateFrom(s, k, d) ==
  IF k >= len(s.t) THEN calculate_power(s)
  ELSE Only({ IF h.exc # NoExc THEN h
              ELSE Only({ IF c.exc # NoExc THEN c ELSE simulateFrom(c.self, k + 1, d)
                          : c \in {controlLaw(h.self, k, d)} })
              : h \in {hubStep(s, k)} })

simulate(s) == simulateFrom(s, 0, mean(diff(s.t)))

\* The series get_results() returns for object i.
resultsOf(i) == get_results(objectOf(i)).val

\* simulate() of object i has returned, once or twice.
finished(i) == sims[i].pc = "done"

----------------------------------------------------------------------------
\* C12: re-running with identical inputs yields identical outputs: two objects
\* built from equal configs (the minimiser, a function of its inputs, having
\* given both the same speed) that have run simulate() equally often return
\* equal series, entry by entry, and the series after a second simulate() on
\* an object equal those after its first.
C12_RerunIdentical ==
  /\ (/\ finished(1) /\ finished(2)
      /\ configOf(1) = configOf(2)
      /\ sims[1].again = sims[2].again
      /\ sims[1].self.optimal_speed = sims[2].self.optimal_speed)
     => resultsOf(1) = resultsOf(2)
  /\ \A i \in Sims : finished(i) /\ sims[i].again => resultsOf(i) = sims[i].firstRun

\* Two objects built from equal configs in two dictionaries, cable-moored, have
\* both run simulate() twice and returned a thrust that is not zero.
C12_Witness ==
  /\ finished(1) /\ finished(2) /\ sims[1].again /\ sims[2].again
  /\ sims[1].config.Uinf # sims[2].config.Uinf
  /\ configOf(1) = configOf(2)
  /\ sims[1].self.attachment_method = "cable"
  /\ sims[1].self.optimal_speed = sims[2].self.optimal_speed
  /\ FGt(resultsOf(1)["Ft"].d[1], FZero)
  /\ sims[1].firstRun # NoResults

----------------------------------------------------------------------------
\* Object i run alone: from the object its constructor returned, simulate()
\* as often as object i has run it.
ranAlone(i) ==
  IF sims[i].again THEN simulate(simulate(sims[i].built).self).self
  ELSE simulate(sims[i].built).self

\* The series of each object whose simulate() has returned are those of the
\* object run alone.
asAlone == \A i \in Sims : finished(i) => resultsOf(i) = get_results(ranAlone(i)).val

\* The objects that more than one RotorSimulation refers to, the config series
\* and the ConstantsGlobal singleton, stay as they are.
sharedUnwritten ==
  \A a \in DOMAIN heap : a[1] \in {"config", "ConstantsGlobal"} => heap'[a] = heap[a]

\* A step of one object leaves the arrays of the other as they are.
ownArraysOnly ==
  \A i \in Sims : sims'[i] = sims[i] =>
     \A f \in StateNames :
        sims[i].pc # "new" => /\ sims[i].self[f] \in DOMAIN heap'
                              /\ heap'[sims[i].self[f]] = heap[sims[i].self[f]]

\* C13: independent runs share no mutable state: however the steps of two
\* objects interleave (two built from the same config arrays included), the
\* series of each are those it produces run alone; no step of one object
\* changes an array of the other, and the config series and the
\* ConstantsGlobal singleton are never written.
C13_Independent ==
  /\ []asAlone
  /\ [][sharedUnwritten /\ ownArraysOnly]_<<sims, heap>>

\* Object 1 has returned from its second simulate() with a thrust that is not
\* zero while object 2, built from the same config arrays, is in the middle of
\* its loop, and the singleton is there.
C13_Witness ==
  /\ finished(1) /\ sims[1].again
  /\ sims[2].pc = "loop" /\ sims[2].kk = 1
  /\ sims[1].config.Uinf = sims[2].config.Uinf
  /\ singleton \in DOMAIN heap
  /\ FGt(resultsOf(1)["Ft"].d[1], FZero)


----------------------------------------------------------------------------
\* C21

\* The caller holds an object: the constructor returned one, whatever
\* simulate() did with it afterwards.
objectExists == constructed \/ (pc = "raised" /\ raisedIn = "simulate")

\* The object is rigidly attached.
rigid == objectExists /\ self.attachment_method = "solid_bar"

\* dHub, theta_turbine and Uinf_adjusted are what lines 40-42 make of the config.
rigidFrame ==
  /\ \A k \in DOMAIN self.dHub : self.dHub[k] = self.dCable
  /\ \A k \in DOMAIN self.theta_turbine : self.theta_turbine[k] = FZero
  /\ len(self.dHub) = len(self.t) /\ len(self.theta_turbine) = len(self.t)
  /\ self.Uinf_adjusted =
        flowAtDepth(NdArray(self.Uinf), self.Radius, NdArray(self.dHub), self.dMoor).val

\* C21: with solid_bar attachment dHub[k] = dCable and theta_turbine[k] = 0 for
\* every k, Uinf_adjusted is what the constructor computed from the whole
\* inflow series, and no step of simulate() changes dHub, theta_turbine or
\* Uinf_adjusted, whatever the thrust.
C21_RigidFrame ==
  /\ [](rigid => rigidFrame)
  /\ [][rigid => /\ self'.dHub = self.dHub
                 /\ self'.theta_turbine = self.theta_turbine
                 /\ self'.Uinf_adjusted = self.Uinf_adjusted]_vars

\* A rigid run of two samples has returned with a thrust that is not zero at
\* the first step.
C21_Witness ==
  /\ rigid /\ pc = "done" /\ len(self.t) = 2
  /\ FGt(self.Ft[0], FZero)
  /\ rigidFrame


----------------------------------------------------------------------------
\* C22

\* A run of a valid config with constant inflow above Umin, rigid attachment
\* and optimal control has returned.
scenarioA ==
  /\ pc = "done" /\ config \in ValidConfigs
  /\ self.attachment_method = "solid_bar" /\ self.control_strategy = "optimal"
  /\ \A k \in DOMAIN self.Uinf : self.Uinf[k] = self.Uinf[0] /\ FGt(self.Uinf[k], self.Umin)

\* The rated-power clamp fired at no step of the run.
neverRated == \A k \in DOMAIN self.w : ~ratedFired(k)

\* The premises on the curve: Cq(TSROpt) = CpOpt / TSROpt and TSROpt <= TSRmax.
optimumOnCurve ==
  /\ CqFunc(self, self.TSROpt) = FDiv(self.CpOpt, self.TSROpt)
  /\ FLe(self.TSROpt, self.TSRmax)

\* C22: in a run with constant inflow above Umin, rigid attachment and optimal
\* control, Pelec[k] > 0 for every k > 0; when the rated clamp never fires,
\* w[0] = TSROpt * U / R is the fixed point: wd[k] = 0, w[k] = w[0] and
\* TSR[k] = TSROpt for all k.
C22_ScenarioA ==
  scenarioA =>
    /\ \A k \in DOMAIN self.Pelec : k > 0 => FGt(self.Pelec[k], FZero)
    /\ (neverRated /\ optimumOnCurve) =>
          \A k \in DOMAIN self.w : /\ self.wd[k] = FZero
                                   /\ self.w[k] = self.w[0]
                                   /\ self.TSR[k] = self.TSROpt


----------------------------------------------------------------------------
\* C23

\* The object runs one of the two control laws.
controlled == self.control_strategy \in {"optimal", "constant_speed"}

\* The cut-in clamp fired at step k (the test of lines 98 and 126).
cutInFired(k) == hasUadj(self, k) /\ FLt(Uadj(k), self.Umin)

\* C23: the speed integration is never interrupted: at every completed step
\* k > 0 of either strategy w[k] = w[k-1] + wd[k-1] * dt, and at every
\* completed step wd[k] = 1/Jr * (Th[k] - Tc[k] - Tbrake[k]), also after a step
\* whose Tc was clamped; at a step whose adjusted inflow is not below Umin,
\* Tc[k] is the control torque of the strategy computed from w[k] (with the
\* rated clamp applied).
C23_Integration ==
  controlled =>
    \A k \in stepped :
      /\ k > 0 => self.w[k] = FAdd(self.w[k - 1], FMul(self.wd[k - 1], dt))
      /\ self.wd[k] = acceleration(self.Th[k], self.Tc[k], self.Tbrake[k])
      /\ ~cutInFired(k) => self.Tc[k] = ratedClamp(self, rawTorque(k), self.w[k])

\* Step 0 was below cut-in and left an acceleration, step 1 is back above
\* Umin with a control torque that is not zero.
C23_Witness ==
  /\ controlled /\ 1 \in stepped
  /\ cutInFired(0) /\ self.Tc[0] = FZero /\ FGt(self.wd[0], FZero)
  /\ ~cutInFired(1) /\ FGt(self.Tc[1], FZero)
  /\ self.w[1] = FAdd(self.w[0], FMul(self.wd[0], dt))
  /\ FGt(self.w[1], self.w[0])


----------------------------------------------------------------------------
\* C24

\* C24: with the brake enabled, Tc[k] + Tbrake[k] equals the unclamped control
\* torque at every completed step (Kopt * w[k]^2 for optimal control, Th[k]
\* for constant speed); with the brake disabled Tbrake[k] = 0 at every k and
\* wd[k] = 1/Jr * (Th[k] - Tc[k]).
C24_BrakeBalance ==
  controlled =>
    /\ self.withBrake =>
         \A k \in stepped : FAdd(self.Tc[k], self.Tbrake[k]) = rawTorque(k)
    /\ ~self.withBrake =>
         /\ \A k \in DOMAIN self.Tbrake : self.Tbrake[k] = FZero
         /\ \A k \in stepped :
              self.wd[k] = FMul(FDiv(F1, Jr), FSub(self.Th[k], self.Tc[k]))

\* C24 as the code computes it: with the brake enabled, Tbrake[k] is the
\* rounded difference of the unclamped control torque and Tc[k] (so that
\* Tc[k] + Tbrake[k] is that torque up to one rounding, and exactly where the
\* cut-in clamp fired or no clamp did); with the brake disabled Tbrake[k] = 0
\* at every k and wd[k] = 1/Jr * (Th[k] - Tc[k] - 0).
C24_BrakeDifference ==
  controlled =>
    /\ self.withBrake =>
         \A k \in stepped :
            /\ self.Tbrake[k] = FSub(rawTorque(k), self.Tc[k])
            /\ (self.Tc[k] = FZero \/ self.Tc[k] = rawTorque(k)) =>
                  FAdd(self.Tc[k], self.Tbrake[k]) = rawTorque(k)
    /\ ~self.withBrake =>
         /\ \A k \in DOMAIN self.Tbrake : self.Tbrake[k] = FZero
         /\ \A k \in stepped :
              self.wd[k] = acceleration(self.Th[k], self.Tc[k], FZero)

\* A braked step on which the rated clamp fired and the brake took up a torque
\* that is not zero.
C24_Witness ==
  \E k \in stepped :
    /\ controlled /\ self.withBrake /\ ratedFired(k) /\ ~cutInFired(k)
    /\ FGt(self.Tbrake[k], FZero) /\ FGt(self.Tc[k], FZero)


----------------------------------------------------------------------------
\* C25

\* The power series calculate_power binds.
PowerNames == {"Phydro", "Pfluid", "Punc", "Pmech", "Pelec"}

\* The power series of the object are those of the formulas of lines 154-158
\* on its state series.
powerAccounted ==
  /\ DOMAIN self.Pmech = DOMAIN self.w /\ DOMAIN self.Pelec = DOMAIN self.w
  /\ \A k \in DOMAIN self.w :
       /\ self.Pmech[k] = FMul(self.w[k], self.Tc[k])
       /\ self.Pelec[k] = FMul(self.Pmech[k], self.turbine_efficiency)

\* The step binds the power series: calculate_power runs.
accounting == ~self.hasPower /\ self'.hasPower

\* C25: power accounting runs once per simulate(), after the pass of index
\* N - 1, and leaves the state series as they are; it gives Pmech[k] = w[k] *
\* Tc[k] and Pelec[k] = Pmech[k] * efficiency for every k; before simulate()
\* has completed the power series do not exist and get_results() cannot return
\* them; once bound they are not changed.
C25_PowerAccounting ==
  /\ [](self.hasPower => simulated /\ powerAccounted)
  /\ [](~self.hasPower => get_results(self).exc # NoExc)
  /\ [][accounting => /\ pc = "loop" /\ kk = len(self.t) /\ pc' = "done"
                      /\ (controlled => stepped = DOMAIN self.w)
                      /\ \A n \in StateNames : self'[n] = self[n]]_vars
  /\ [][self.hasPower => \A n \in PowerNames \cup StateNames : self'[n] = self[n]]_vars

\* simulate() has returned on a run of two samples with electrical power at
\* both, and get_results() has handed out the series.
C25_Witness ==
  /\ pc = "returned" /\ self.hasPower /\ len(self.t) = 2 /\ controlled
  /\ FGt(self.Pelec[0], FZero) /\ FGt(self.Pelec[1], FZero)
  /\ results["Pelec"].d = self.Pelec


----------------------------------------------------------------------------
\* C26

\* The entries of index k that adjust_hub_depth writes are those of lines
\* 72-79: the angle from the thrust of the step before, the depth from the
\* angle, the adjusted inflow from the depth.
hubEntries(k) ==
  /\ hasUadj(self, k)
  /\ self.theta_turbine[k] =
        (IF k = 0 THEN FZero ELSE arctan(FDiv(self.Ft[k - 1], self.Wturbine)))
  /\ self.dHub[k] =
        (IF k = 0 THEN self.dCable ELSE FMul(self.dCable, cos(self.theta_turbine[k])))
  /\ Uadj(k) = flowAtDepth(NdScalar(self.Uinf[k]), self.Radius,
                           NdScalar(self.dHub[k]), self.dMoor).val.d[0]

\* The entries of index k that the control law writes, each computed from the
\* ones written before it in the step: TSR from w and the adjusted inflow, Th
\* from TSR, Tc from the control torque through the rated clamp and then the
\* cut-in clamp, Tbrake from Tc, Ft from TSR, wd from Th, Tc and Tbrake.
controlEntries(k) ==
  /\ hasUadj(self, k)
  /\ self.TSR[k] = tipSpeedRatio(self, self.w[k], Uadj(k))
  /\ self.Th[k] = calculate_hydro_torque(self.Radius, Uadj(k), CqFunc(self, self.TSR[k]))
  /\ self.Tc[k] = cutInClamp(self, ratedClamp(self, rawTorque(k), self.w[k]), k)
  /\ self.withBrake => self.Tbrake[k] = FSub(rawTorque(k), self.Tc[k])
  /\ self.Ft[k] = calculate_thrust_force(self.Radius, Uadj(k), CtFunc(self, self.TSR[k]))
  /\ self.wd[k] = acceleration(self.Th[k], self.Tc[k], self.Tbrake[k])

\* The step is a pass of the control law over index kk.
controlPass == pc = "loop" /\ kk' = kk + 1

\* C26: within each step k the order is fixed: with cable attachment
\* adjust_hub_depth has written the hub depth and the adjusted inflow of index
\* k before the control law of step k runs; the control law then computes
\* w[k], TSR[k], Th[k], Tc[k] (rated clamp, then cut-in clamp), Tbrake[k],
\* Ft[k] and last wd[k], each from the entries before it, and the adjusted
\* inflow it reads is the one written at this step.
C26_StepOrder ==
  /\ [](controlled =>
          \A k \in stepped :
             /\ self.attachment_method = "cable" => hubEntries(k)
             /\ controlEntries(k))
  /\ [][(controlPass /\ self.attachment_method = "cable") =>
           /\ hubDone /\ ~hubDone'
           /\ hubEntries(kk)
           /\ self'.Uinf_adjusted = self.Uinf_adjusted
           /\ self'.dHub = self.dHub]_vars

\* A cable run whose second step has a mooring angle, an adjusted inflow and a
\* control torque that are not zero.
C26_Witness ==
  /\ controlled /\ self.attachment_method = "cable" /\ 1 \in stepped
  /\ FGt(self.theta_turbine[1], FZero) /\ FGt(Uadj(1), FZero) /\ FGt(self.Tc[1], FZero)
  /\ hubEntries(1) /\ controlEntries(1)


----------------------------------------------------------------------------
\* C27

\* The rated powers and cut-in speeds of the second run: 1000 and 100000 W,
\* 0.25, 1 and 1.75 m/s.
RatedPowers == {Lit(1000, 1), Lit(100000, 1)}

CutInSpeeds == {Lit(1, 4), F1, Lit(7, 4)}

\* The series of the dynamic trajectory.
TrajectoryNames == {"w", "wd", "TSR", "Th", "Ft", "theta_turbine", "dHub", "Uinf_adjusted"}

\* The object after __init__ and simulate() on the config of the run with
\* Prated and Umin replaced, the solver having returned the same speed (its
\* objective, lines 230-236, reads neither).
otherRun(pr, um) ==
  simulate(Only(initStrategy(initialize_results(initAttributes(
                               [config EXCEPT !.Prated = pr, !.Umin = um])),
                             [exc |-> NoExc, vals |-> {self.optimal_speed}])).self).self

\* simulate() has returned on a braked run of a config with both series of
\* equal length.
brakedRun ==
  /\ pc = "done" /\ controlled /\ self.withBrake
  /\ len(self.Uinf) = len(self.t)

\* The trajectories of the run and of the object o are equal, entry by entry.
sameTrajectory(o) == \A n \in TrajectoryNames : o[n] = self[n]

\* C27: with the brake enabled the dynamic trajectory does not depend on the
\* power limits: a run whose config differs only in Prated and Umin has the
\* same w, wd, TSR, Th, Ft, theta_turbine, dHub and Uinf_adjusted.
C27_LimitsIndependent ==
  brakedRun => \A pr \in RatedPowers, um \in CutInSpeeds : sameTrajectory(otherRun(pr, um))


\* The rated power pr leaves the weight of the turbine, and with it the
\* mooring angle of a cable run, as it is: UnitWeight(Radius, Prated) of line
\* 30 is not read (solid bar), or pr is the rated power of the run.
weightUnchanged(pr) == self.attachment_method = "solid_bar" \/ pr = config.Prated

\* C27 for the runs it holds on: with the brake enabled and the constant_speed
\* strategy, a run whose config differs only in Umin, and in Prated where the
\* attachment is a solid bar, has the same w, wd, TSR, Th, Ft, theta_turbine,
\* dHub and Uinf_adjusted.
C27_LimitsIndependentConstantSpeed ==
  (brakedRun /\ self.control_strategy = "constant_speed") =>
     \A pr \in RatedPowers, um \in CutInSpeeds :
        weightUnchanged(pr) => sameTrajectory(otherRun(pr, um))

\* A braked constant-speed cable run with a thrust and a control torque that
\* are not zero, and a second run with another cut-in speed whose control
\* torque differs.
C27_Witness ==
  /\ brakedRun /\ self.control_strategy = "constant_speed"
  /\ self.attachment_method = "cable" /\ len(self.t) = 2
  /\ FGt(self.Ft[1], FZero) /\ FGt(self.Tc[1], FZero)
  /\ \E um \in CutInSpeeds : /\ otherRun(config.Prated, um).Tc # self.Tc
                             /\ sameTrajectory(otherRun(config.Prated, um))


----------------------------------------------------------------------------
\* C28

\* A run of the constant_speed strategy, its solver having returned a speed.
constantSpeedRun ==
  /\ objectExists /\ self.control_strategy = "constant_speed" /\ self.hasOptimalSpeed

\* Neither clamp fired at a completed step.
noClampFired == \A k \in stepped : ~ratedFired(k) /\ ~cutInFired(k)

\* C28: with the constant_speed strategy and the brake enabled the rotor speed
\* is constant, wd[k] = 0 and w[k] = optimal_speed at every completed step, for
\* every inflow series, rated power and cut-in speed; with the brake disabled
\* the same holds on every run in which neither clamp fires.
C28_SpeedConstant ==
  (constantSpeedRun /\ (self.withBrake \/ noClampFired)) =>
     \A k \in stepped : self.wd[k] = FZero /\ self.w[k] = self.optimal_speed


----------------------------------------------------------------------------
\* C29

\* The premises of the rated clamp: Prated >= 0 and efficiency > 0 (the
\* curves of the model have Cq >= 0).
ratedPremises == FGe(self.Prated, FZero) /\ FGt(self.turbine_efficiency, FZero)

\* C29: the rated-power clamp never divides by zero: at every completed step
\* where the clamp branch Tc * w * efficiency > Prated was taken, w[k] > 0,
\* (Prated / efficiency) / w[k] is a finite number, and it lies between 0 and
\* the unclamped control torque.
C29_ClampDefined ==
  (controlled /\ ratedPremises) =>
     \A k \in stepped :
        ratedFired(k) =>
           /\ FGt(self.w[k], FZero)
           /\ \A c \in {FDiv(FDiv(self.Prated, self.turbine_efficiency), self.w[k])} :
                 /\ IsFin(c)
                 /\ FLe(FZero, c) /\ FLe(c, rawTorque(k))
                 /\ ~cutInFired(k) => self.Tc[k] = c

\* The rated clamp fired at a completed step above cut-in and cut the control
\* torque.
C29_Witness ==
  \E k \in stepped :
     /\ controlled /\ ratedPremises /\ ratedFired(k) /\ ~cutInFired(k)
     /\ FGt(self.Tc[k], FZero) /\ FLt(self.Tc[k], rawTorque(k))


----------------------------------------------------------------------------
\* C30

\* The inflow of the config is non-negative and the march started from a
\* positive speed, with time running forward.
forwardStart ==
  /\ controlled /\ 0 \in stepped
  /\ \A k \in DOMAIN self.Uinf : FGe(self.Uinf[k], FZero)
  /\ FGt(self.w[0], FZero)
  /\ len(self.t) < 2 \/ FGt(dt, FZero)

\* C30: the rotor never spins backwards: for non-negative inflow (the curves
\* of the model have Cq >= 0) and a positive initial speed, w[k] >= 0 and
\* TSR[k] >= 0 at every completed step, and Pmech[k] >= 0 once the powers are
\* computed, under both strategies, brake on or off.
C30_NeverBackwards ==
  forwardStart =>
     /\ \A k \in stepped : FGe(self.w[k], FZero) /\ FGe(self.TSR[k], FZero)
     /\ self.hasPower => \A k \in DOMAIN self.Pmech : FGe(self.Pmech[k], FZero)

====
